---------------------------- MODULE Spec2Model ----------------------------
(***************************************************************************)
(* A model of packageurl-go: FromString (parse), ToString (serialize) and  *)
(* the per-type adjustment and validation rules of src/packageurl.go.      *)
(*                                                                         *)
(* A Go string is modelled as a sequence of bytes.  A byte is written as   *)
(* a TLA+ string: a printable ASCII byte is the one-character string of    *)
(* that character, every other byte 0xHH (and the backquote 0x60, which a  *)
(* TLA+ string cannot hold) is the three-character string "xHH".  The      *)
(* operators of net/url, path and strings that the source calls are        *)
(* modelled by what the Go standard library does.                          *)
(***************************************************************************)
EXTENDS Integers, Sequences, FiniteSets

VARIABLES pc, kind, rec0, s1, r1, s2, r2, vres, qq, rq, pq, mm, mr, qr, nres

vars == <<pc, kind, rec0, s1, r1, s2, r2, vres, qq, rq, pq, mm, mr, qr, nres>>

---------------------------------------------------------------------------
(* Bytes *)

Printable ==
  <<" ", "!", "\"", "#", "$", "%", "&", "'", "(", ")", "*", "+", ",", "-", ".", "/",
    "0", "1", "2", "3", "4", "5", "6", "7", "8", "9", ":", ";", "<", "=", ">", "?",
    "@", "A", "B", "C", "D", "E", "F", "G", "H", "I", "J", "K", "L", "M", "N", "O",
    "P", "Q", "R", "S", "T", "U", "V", "W", "X", "Y", "Z", "[", "\\", "]", "^", "_",
    "x60", "a", "b", "c", "d", "e", "f", "g", "h", "i", "j", "k", "l", "m", "n", "o",
    "p", "q", "r", "s", "t", "u", "v", "w", "x", "y", "z", "{", "|", "}", "~">>

upperhex == <<"0", "1", "2", "3", "4", "5", "6", "7", "8", "9", "A", "B", "C", "D", "E", "F">>

\* The name of byte v
ByteChar(v) ==
  IF v \in 32..126 THEN Printable[v - 31]
  ELSE "x" \o upperhex[(v \div 16) + 1] \o upperhex[(v % 16) + 1]

\* The byte that c names
CharByte(c) ==
  IF \E i \in 1..95 : Printable[i] = c
  THEN 31 + (CHOOSE i \in 1..95 : Printable[i] = c)
  ELSE CHOOSE v \in (0..31) \cup (127..255) : ByteChar(v) = c

IsUpper(c) == CharByte(c) \in 65..90
IsLower(c) == CharByte(c) \in 97..122
IsDigit(c) == CharByte(c) \in 48..57
IsAlnum(c) == IsUpper(c) \/ IsLower(c) \/ IsDigit(c)

\* U+FFFD in UTF-8, what strings.Map writes for a byte that is not part of a
\* well-formed character
RuneError == <<"xEF", "xBF", "xBD">>

\* strings.ToLower: an ASCII upper-case letter is lower-cased; a two-byte
\* character is kept, lower-cased when it is one of U+00C0..U+00DE; a byte
\* from 0x80 on that starts no well-formed character is replaced by U+FFFD.
\* Characters of three and four bytes, and the cased characters beyond
\* U+00FF, are outside what the inputs hold.
RECURSIVE ToLower(_)
ToLower(s) ==
  IF s = <<>> THEN <<>>
  ELSE IF CharByte(s[1]) < 128
  THEN <<IF IsUpper(s[1]) THEN ByteChar(CharByte(s[1]) + 32) ELSE s[1]>> \o ToLower(Tail(s))
  ELSE IF CharByte(s[1]) \in 194..223 /\ Len(s) >= 2 /\ CharByte(s[2]) \in 128..191
  THEN (IF CharByte(s[1]) = 195 /\ CharByte(s[2]) \in (128..158) \ {151}
        THEN <<s[1], ByteChar(CharByte(s[2]) + 32)>>
        ELSE <<s[1], s[2]>>) \o ToLower(SubSeq(s, 3, Len(s)))
  ELSE RuneError \o ToLower(Tail(s))

---------------------------------------------------------------------------
(* strings *)

\* strings.Index / strings.LastIndex for a one-byte separator: 0 when absent
\* (Go's -1), else the 1-based position.
Index(s, c) ==
  IF \E i \in 1..Len(s) : s[i] = c
  THEN CHOOSE i \in 1..Len(s) : s[i] = c /\ \A j \in 1..(i - 1) : s[j] # c
  ELSE 0

LastIndex(s, c) ==
  IF \E i \in 1..Len(s) : s[i] = c
  THEN CHOOSE i \in 1..Len(s) : s[i] = c /\ \A j \in (i + 1)..Len(s) : s[j] # c
  ELSE 0

Contains(s, c) == \E i \in 1..Len(s) : s[i] = c

Count(s, c) == Cardinality({i \in 1..Len(s) : s[i] = c})

\* strings.Cut(s, sep) for a one-byte sep
Cut(s, c) ==
  LET i == Index(s, c)
  IN IF i = 0 THEN [before |-> s, after |-> <<>>, found |-> FALSE]
     ELSE [before |-> SubSeq(s, 1, i - 1), after |-> SubSeq(s, i + 1, Len(s)),
           found |-> TRUE]

HasPrefix(s, p) == Len(s) >= Len(p) /\ SubSeq(s, 1, Len(p)) = p
HasSuffix(s, p) == Len(s) >= Len(p) /\ SubSeq(s, Len(s) - Len(p) + 1, Len(s)) = p

TrimPrefix(s, p) == IF HasPrefix(s, p) THEN SubSeq(s, Len(p) + 1, Len(s)) ELSE s

RECURSIVE TrimLeft(_, _)
TrimLeft(s, c) ==
  IF s # <<>> /\ s[1] = c THEN TrimLeft(Tail(s), c) ELSE s

RECURSIVE TrimRight(_, _)
TrimRight(s, c) ==
  IF s # <<>> /\ s[Len(s)] = c THEN TrimRight(SubSeq(s, 1, Len(s) - 1), c) ELSE s

\* strings.Trim(s, "/")
Trim(s, c) == TrimRight(TrimLeft(s, c), c)

\* strings.ReplaceAll(s, old, new) for one-byte old and new
RECURSIVE ReplaceAll(_, _, _)
ReplaceAll(s, old, new) ==
  IF s = <<>> THEN <<>>
  ELSE <<IF s[1] = old THEN new ELSE s[1]>> \o ReplaceAll(Tail(s), old, new)

\* strings.Split(s, sep) for a one-byte sep
RECURSIVE Split(_, _)
Split(s, c) ==
  LET i == Index(s, c)
  IN IF i = 0 THEN <<s>>
     ELSE <<SubSeq(s, 1, i - 1)>> \o Split(SubSeq(s, i + 1, Len(s)), c)

\* strings.Join(elems, sep)
RECURSIVE Join(_, _)
Join(elems, sep) ==
  IF elems = <<>> THEN <<>>
  ELSE IF Len(elems) = 1 THEN elems[1]
  ELSE elems[1] \o sep \o Join(Tail(elems), sep)

---------------------------------------------------------------------------
(* net/url: escaping *)

ishex(c) ==
  IsDigit(c) \/ CharByte(c) \in 97..102 \/ CharByte(c) \in 65..70

unhex(c) ==
  IF IsDigit(c) THEN CharByte(c) - 48
  ELSE IF CharByte(c) \in 97..102 THEN CharByte(c) - 97 + 10
  ELSE IF CharByte(c) \in 65..70 THEN CharByte(c) - 65 + 10
  ELSE 0

\* url.shouldEscape(c, mode)
shouldEscape(c, mode) ==
  IF IsAlnum(c) THEN FALSE
  ELSE IF mode \in {"encodeHost", "encodeZone"}
          /\ c \in {"!", "$", "&", "'", "(", ")", "*", "+", ",", ";", "=", ":",
                    "[", "]", "<", ">", "\""}
  THEN FALSE
  ELSE IF c \in {"-", "_", ".", "~"} THEN FALSE
  ELSE IF c \in {"$", "&", "+", ",", "/", ":", ";", "=", "?", "@"}
          /\ mode \in {"encodePath", "encodePathSegment", "encodeUserPassword",
                       "encodeQueryComponent", "encodeFragment"}
  THEN CASE mode = "encodePath" -> c = "?"
         [] mode = "encodePathSegment" -> c \in {"/", ";", ",", "?"}
         [] mode = "encodeUserPassword" -> c \in {"@", "/", "?", ":"}
         [] mode = "encodeQueryComponent" -> TRUE
         [] mode = "encodeFragment" -> FALSE
  ELSE IF mode = "encodeFragment" /\ c \in {"!", "(", ")", "*"} THEN FALSE
  ELSE TRUE

\* url.escape(s, mode)
RECURSIVE escape(_, _)
escape(s, mode) ==
  IF s = <<>> THEN <<>>
  ELSE LET c == s[1]
       IN (IF shouldEscape(c, mode)
           THEN IF c = " " /\ mode = "encodeQueryComponent" THEN <<"+">>
                ELSE <<"%", upperhex[(CharByte(c) \div 16) + 1],
                       upperhex[(CharByte(c) % 16) + 1]>>
           ELSE <<c>>)
          \o escape(Tail(s), mode)

\* The first loop of url.unescape(s, mode): TRUE when every '%' is followed by
\* two hex digits (and the host rules hold in the host mode).
RECURSIVE wellFormed(_, _, _)
wellFormed(s, i, mode) ==
  IF i > Len(s) THEN TRUE
  ELSE IF s[i] = "%"
  THEN IF i + 2 > Len(s) \/ ~ishex(s[i + 1]) \/ ~ishex(s[i + 2]) THEN FALSE
       ELSE IF mode = "encodeHost" /\ unhex(s[i + 1]) < 8
               /\ SubSeq(s, i, i + 2) # <<"%", "2", "5">>
       THEN FALSE
       ELSE wellFormed(s, i + 3, mode)
  ELSE IF mode \in {"encodeHost", "encodeZone"} /\ s[i] # "+"
          /\ CharByte(s[i]) < 128 /\ shouldEscape(s[i], "encodeHost")
  THEN FALSE
  ELSE wellFormed(s, i + 1, mode)

\* The second loop of url.unescape(s, mode), on a well-formed s.
RECURSIVE decode(_, _, _)
decode(s, i, mode) ==
  IF i > Len(s) THEN <<>>
  ELSE IF s[i] = "%"
  THEN <<ByteChar(unhex(s[i + 1]) * 16 + unhex(s[i + 2]))>> \o decode(s, i + 3, mode)
  ELSE IF s[i] = "+" /\ mode = "encodeQueryComponent"
  THEN <<" ">> \o decode(s, i + 1, mode)
  ELSE <<s[i]>> \o decode(s, i + 1, mode)

\* url.unescape(s, mode): [ok, s]; ok = FALSE is the EscapeError or
\* InvalidHostError return.
unescape(s, mode) ==
  IF wellFormed(s, 1, mode) THEN [ok |-> TRUE, s |-> decode(s, 1, mode)]
  ELSE [ok |-> FALSE, s |-> <<>>]

\* A variant of url.PathEscape that escapes as a whole path does, leaving
\* "/" alone; C6_NameEscaping tells it from PathEscape.
PathEscapeKeepingSlash(s) == escape(s, "encodePath")

PathEscape(s) == escape(s, "encodePathSegment")
PathUnescape(s) == unescape(s, "encodePathSegment")
QueryEscape(s) == escape(s, "encodeQueryComponent")
QueryUnescape(s) == unescape(s, "encodeQueryComponent")

\* url.validEncoded(s, mode)
validEncoded(s, mode) ==
  \A i \in 1..Len(s) :
    \/ s[i] \in {"!", "$", "&", "'", "(", ")", "*", "+", ",", ";", "=", ":", "@",
                 "[", "]", "%"}
    \/ ~shouldEscape(s[i], mode)

---------------------------------------------------------------------------
(* path *)

\* The elements of a cleaned path: empty and "." elements dropped, ".."
\* removing the element before it; at the root a leading ".." is dropped.
RECURSIVE cleanElems(_, _, _)
cleanElems(todo, done, rooted) ==
  IF todo = <<>> THEN done
  ELSE LET e == todo[1]
       IN IF e = <<>> \/ e = <<".">> THEN cleanElems(Tail(todo), done, rooted)
          ELSE IF e = <<".", ".">>
          THEN IF done # <<>> /\ done[Len(done)] # <<".", ".">>
               THEN cleanElems(Tail(todo), SubSeq(done, 1, Len(done) - 1), rooted)
               ELSE IF rooted THEN cleanElems(Tail(todo), done, rooted)
               ELSE cleanElems(Tail(todo), Append(done, e), rooted)
          ELSE cleanElems(Tail(todo), Append(done, e), rooted)

\* path.Clean(p)
Clean(p) ==
  IF p = <<>> THEN <<".">>
  ELSE LET rooted == p[1] = "/"
           body == Join(cleanElems(Split(p, "/"), <<>>, rooted), <<"/">>)
       IN IF rooted THEN <<"/">> \o body
          ELSE IF body = <<>> THEN <<".">> ELSE body

\* path.Join(elem...)
PathJoin(elems) ==
  LET nonEmpty == SelectSeq(elems, LAMBDA e : e # <<>>)
  IN IF nonEmpty = <<>> THEN <<>> ELSE Clean(Join(nonEmpty, <<"/">>))

---------------------------------------------------------------------------
(* net/url: URL *)

\* The zero url.URL (the fields the source reads or sets).
ZeroURL ==
  [Scheme |-> <<>>, Opaque |-> <<>>, Host |-> <<>>, Path |-> <<>>, RawPath |-> <<>>,
   ForceQuery |-> FALSE, RawQuery |-> <<>>, Fragment |-> <<>>, RawFragment |-> <<>>]

\* (*URL).setPath(p): [ok, u]; on an unescape error the URL is unchanged.
setPath(u, p) ==
  LET d == unescape(p, "encodePath")
  IN IF ~d.ok THEN [ok |-> FALSE, u |-> u]
     ELSE [ok |-> TRUE,
           u |-> [u EXCEPT !.Path = d.s,
                           !.RawPath = IF escape(d.s, "encodePath") = p THEN <<>> ELSE p]]

\* (*URL).setFragment(f)
setFragment(u, f) ==
  LET d == unescape(f, "encodeFragment")
  IN IF ~d.ok THEN [ok |-> FALSE, u |-> u]
     ELSE [ok |-> TRUE,
           u |-> [u EXCEPT !.Fragment = d.s,
                           !.RawFragment =
                              IF escape(d.s, "encodeFragment") = f THEN <<>> ELSE f]]

\* (*URL).EscapedPath()
EscapedPath(u) ==
  IF u.RawPath # <<>> /\ validEncoded(u.RawPath, "encodePath")
     /\ unescape(u.RawPath, "encodePath").ok
     /\ unescape(u.RawPath, "encodePath").s = u.Path
  THEN u.RawPath
  ELSE IF u.Path = <<"*">> THEN <<"*">>
  ELSE escape(u.Path, "encodePath")

\* (*URL).EscapedFragment()
EscapedFragment(u) ==
  IF u.RawFragment # <<>> /\ validEncoded(u.RawFragment, "encodeFragment")
     /\ unescape(u.RawFragment, "encodeFragment").ok
     /\ unescape(u.RawFragment, "encodeFragment").s = u.Fragment
  THEN u.RawFragment
  ELSE escape(u.Fragment, "encodeFragment")

\* (*URL).JoinPath(elem...): the error of setPath is dropped, as in net/url.
JoinPath(u, elem) ==
  LET first == EscapedPath(u)
      all == <<first>> \o elem
      joined == IF ~HasPrefix(first, <<"/">>)
                THEN Tail(PathJoin(<<<<"/">> \o first>> \o elem))
                ELSE PathJoin(all)
      p == IF HasSuffix(all[Len(all)], <<"/">>) /\ ~HasSuffix(joined, <<"/">>)
           THEN joined \o <<"/">> ELSE joined
  IN setPath(u, p).u

\* (*URL).String(), for a URL without user and host (the only ones ToString builds)
URLString(u) ==
  (IF u.Scheme # <<>> THEN u.Scheme \o <<":">> ELSE <<>>)
  \o (IF u.Opaque # <<>> THEN u.Opaque
      ELSE LET path == EscapedPath(u)
           IN (IF u.Scheme = <<>> /\ Index(path, ":") > 0
                  /\ ~Contains(SubSeq(path, 1, Index(path, ":") - 1), "/")
               THEN <<".", "/">> ELSE <<>>) \o path)
  \o (IF u.ForceQuery \/ u.RawQuery # <<>> THEN <<"?">> \o u.RawQuery ELSE <<>>)
  \o (IF u.Fragment # <<>> THEN <<"#">> \o EscapedFragment(u) ELSE <<>>)

\* url.getScheme(rawURL): [ok, scheme, rest]
RECURSIVE getScheme(_, _)
getScheme(rawURL, i) ==
  IF i > Len(rawURL) THEN [ok |-> TRUE, scheme |-> <<>>, rest |-> rawURL]
  ELSE LET c == rawURL[i]
       IN IF IsLower(c) \/ IsUpper(c) THEN getScheme(rawURL, i + 1)
          ELSE IF IsDigit(c) \/ c \in {"+", "-", "."}
          THEN IF i = 1 THEN [ok |-> TRUE, scheme |-> <<>>, rest |-> rawURL]
               ELSE getScheme(rawURL, i + 1)
          ELSE IF c = ":"
          THEN IF i = 1 THEN [ok |-> FALSE, scheme |-> <<>>, rest |-> <<>>]
               ELSE [ok |-> TRUE, scheme |-> SubSeq(rawURL, 1, i - 1),
                     rest |-> SubSeq(rawURL, i + 1, Len(rawURL))]
          ELSE [ok |-> TRUE, scheme |-> <<>>, rest |-> rawURL]

\* url.validOptionalPort(port)
validOptionalPort(port) ==
  port = <<>> \/ (port[1] = ":" /\ \A i \in 2..Len(port) : IsDigit(port[i]))

\* url.validUserinfo(s)
validUserinfo(s) ==
  \A i \in 1..Len(s) :
    IsAlnum(s[i])
    \/ s[i] \in {"-", ".", "_", ":", "~", "!", "$", "&", "'", "(", ")", "*", "+", ",",
                 ";", "=", "%", "@"}

\* url.parseHost(host), for a host that is no IP literal "[...]": [ok, host]
parseHost(host) ==
  IF HasPrefix(host, <<"[">>) /\ LastIndex(host, "]") = 0 THEN [ok |-> FALSE, s |-> <<>>]
  ELSE IF ~HasPrefix(host, <<"[">>) /\ LastIndex(host, ":") # 0
          /\ ~validOptionalPort(SubSeq(host, LastIndex(host, ":"), Len(host)))
  THEN [ok |-> FALSE, s |-> <<>>]
  ELSE IF HasPrefix(host, <<"[">>)
          /\ ~validOptionalPort(SubSeq(host, LastIndex(host, "]") + 1, Len(host)))
  THEN [ok |-> FALSE, s |-> <<>>]
  ELSE unescape(host, "encodeHost")

\* url.parseAuthority(authority): [ok, host]; the user information is parsed
\* and validated, and FromString never reads it.
parseAuthority(authority) ==
  LET i == LastIndex(authority, "@")
      h == parseHost(SubSeq(authority, i + 1, Len(authority)))
      userinfo == SubSeq(authority, 1, i - 1)
      user == Cut(userinfo, ":")
  IN IF ~h.ok THEN h
     ELSE IF i = 0 THEN h
     ELSE IF ~validUserinfo(userinfo) THEN [ok |-> FALSE, s |-> <<>>]
     ELSE IF ~unescape(user.before, "encodeUserPassword").ok
             \/ ~unescape(user.after, "encodeUserPassword").ok
     THEN [ok |-> FALSE, s |-> <<>>]
     ELSE h

\* url.stringContainsCTLByte(s)
stringContainsCTLByte(s) ==
  \E i \in 1..Len(s) : CharByte(s[i]) < 32 \/ CharByte(s[i]) = 127

\* url.parse(rawURL, false): [ok, u]
parse(rawURL) ==
  IF stringContainsCTLByte(rawURL) THEN [ok |-> FALSE, u |-> ZeroURL]
  ELSE IF rawURL = <<"*">> THEN [ok |-> TRUE, u |-> [ZeroURL EXCEPT !.Path = <<"*">>]]
  ELSE
  LET g == getScheme(rawURL, 1)
      force == HasSuffix(g.rest, <<"?">>) /\ Count(g.rest, "?") = 1
      q == Cut(g.rest, "?")
      rest == IF force THEN SubSeq(g.rest, 1, Len(g.rest) - 1) ELSE q.before
      u0 == [ZeroURL EXCEPT !.Scheme = ToLower(g.scheme), !.ForceQuery = force,
                            !.RawQuery = IF force THEN <<>> ELSE q.after]
      rest2 == SubSeq(rest, 3, Len(rest))
      slash == Index(rest2, "/")
      authority == IF slash = 0 THEN rest2 ELSE SubSeq(rest2, 1, slash - 1)
      pathRest == IF slash = 0 THEN <<>> ELSE SubSeq(rest2, slash, Len(rest2))
      auth == parseAuthority(authority)
  IN IF ~g.ok THEN [ok |-> FALSE, u |-> ZeroURL]
     ELSE IF ~HasPrefix(rest, <<"/">>) /\ u0.Scheme # <<>>
     THEN [ok |-> TRUE, u |-> [u0 EXCEPT !.Opaque = rest]]
     ELSE IF ~HasPrefix(rest, <<"/">>) /\ Contains(Cut(rest, "/").before, ":")
     THEN [ok |-> FALSE, u |-> ZeroURL]
     ELSE IF HasPrefix(rest, <<"/", "/">>)
             /\ (u0.Scheme # <<>> \/ ~HasPrefix(rest, <<"/", "/", "/">>))
     THEN IF ~auth.ok THEN [ok |-> FALSE, u |-> ZeroURL]
          ELSE setPath([u0 EXCEPT !.Host = auth.s], pathRest)
     ELSE setPath(u0, rest)

\* url.Parse(rawURL): [ok, u]
Parse(rawURL) ==
  LET c == Cut(rawURL, "#")
      p == parse(c.before)
  IN IF ~p.ok THEN [ok |-> FALSE, u |-> ZeroURL]
     ELSE IF c.after = <<>> THEN p
     ELSE IF ~setFragment(p.u, c.after).ok THEN [ok |-> FALSE, u |-> ZeroURL]
     ELSE setFragment(p.u, c.after)

---------------------------------------------------------------------------
(* packageurl.go: the known purl types *)

TypeAlpm == <<"a", "l", "p", "m">>
TypeApk == <<"a", "p", "k">>
TypeBitbucket == <<"b", "i", "t", "b", "u", "c", "k", "e", "t">>
TypeCocoapods == <<"c", "o", "c", "o", "a", "p", "o", "d", "s">>
TypeCargo == <<"c", "a", "r", "g", "o">>
TypeComposer == <<"c", "o", "m", "p", "o", "s", "e", "r">>
TypeConan == <<"c", "o", "n", "a", "n">>
TypeConda == <<"c", "o", "n", "d", "a">>
TypeCran == <<"c", "r", "a", "n">>
TypeDebian == <<"d", "e", "b">>
TypeDocker == <<"d", "o", "c", "k", "e", "r">>
TypeGem == <<"g", "e", "m">>
TypeGeneric == <<"g", "e", "n", "e", "r", "i", "c">>
TypeGithub == <<"g", "i", "t", "h", "u", "b">>
TypeGolang == <<"g", "o", "l", "a", "n", "g">>
TypeHackage == <<"h", "a", "c", "k", "a", "g", "e">>
TypeHex == <<"h", "e", "x">>
TypeMaven == <<"m", "a", "v", "e", "n">>
TypeNPM == <<"n", "p", "m">>
TypeNuget == <<"n", "u", "g", "e", "t">>
TypeQpkg == <<"q", "p", "k", "g">>
TypeOCI == <<"o", "c", "i">>
TypePyPi == <<"p", "y", "p", "i">>
TypeRPM == <<"r", "p", "m">>
TypeSWID == <<"s", "w", "i", "d">>
TypeSwift == <<"s", "w", "i", "f", "t">>
TypeHuggingface == <<"h", "u", "g", "g", "i", "n", "g", "f", "a", "c", "e">>
TypeMLFlow == <<"m", "l", "f", "l", "o", "w">>
TypeJulia == <<"j", "u", "l", "i", "a">>

KnownTypes ==
  {TypeAlpm, TypeApk, TypeBitbucket, TypeCocoapods, TypeCargo, TypeComposer,
   TypeConan, TypeConda, TypeCran, TypeDebian, TypeDocker, TypeGem,
   TypeGeneric, TypeGithub, TypeGolang, TypeHackage, TypeHex, TypeMaven,
   TypeNPM, TypeNuget, TypeQpkg, TypeOCI, TypePyPi, TypeRPM,
   TypeSWID, TypeSwift, TypeHuggingface, TypeMLFlow, TypeJulia}

---------------------------------------------------------------------------
(* url.Values, the Qualifiers of packageurl.go: a map from a key to the     *)
(* list of its values.  A nil map and an empty map are both the empty      *)
(* function.                                                               *)

EmptyValues == [k \in {} |-> <<>>]

\* Values.Get(key)
Get(v, key) == IF key \in DOMAIN v /\ v[key] # <<>> THEN v[key][1] ELSE <<>>

\* Values.Has(key)
Has(v, key) == key \in DOMAIN v

\* Values.Set(key, value)
Set(v, key, value) == [k \in DOMAIN v \cup {key} |-> IF k = key THEN <<value>> ELSE v[k]]

\* Values.Add(key, value)
Add(v, key, value) ==
  [k \in DOMAIN v \cup {key} |->
     IF k = key THEN (IF key \in DOMAIN v THEN Append(v[key], value) ELSE <<value>>)
     ELSE v[k]]

\* Values.Del(key)
Del(v, key) == [k \in DOMAIN v \ {key} |-> v[k]]

\* url.parseQuery(m, query) over the '&'-separated parts of the query:
\* [ok, m]; ok = FALSE when some part had a semicolon or a bad escape.
RECURSIVE parseQuery(_, _, _)
parseQuery(m, parts, ok) ==
  IF parts = <<>> THEN [ok |-> ok, m |-> m]
  ELSE LET part == parts[1]
           kv == Cut(part, "=")
           key == QueryUnescape(kv.before)
           value == QueryUnescape(kv.after)
       IN IF Contains(part, ";") THEN parseQuery(m, Tail(parts), FALSE)
          ELSE IF part = <<>> THEN parseQuery(m, Tail(parts), ok)
          ELSE IF ~key.ok \/ ~value.ok THEN parseQuery(m, Tail(parts), FALSE)
          ELSE parseQuery(Add(m, key.s, value.s), Tail(parts), ok)

\* url.ParseQuery(query)
ParseQuery(query) ==
  IF query = <<>> THEN [ok |-> TRUE, m |-> EmptyValues]
  ELSE parseQuery(EmptyValues, Split(query, "&"), TRUE)

\* The byte-wise order of Go strings.
RECURSIVE Less(_, _)
Less(a, b) ==
  IF b = <<>> THEN FALSE
  ELSE IF a = <<>> THEN TRUE
  ELSE IF a[1] # b[1] THEN CharByte(a[1]) < CharByte(b[1])
  ELSE Less(Tail(a), Tail(b))

\* A variant of the sort that puts the keys in descending order;
\* C14_QualifierOrder tells it from SortKeys.
RECURSIVE SortKeysDescending(_)
SortKeysDescending(keys) ==
  IF keys = {} THEN <<>>
  ELSE LET greatest == CHOOSE k \in keys : \A o \in keys \ {k} : Less(o, k)
       IN <<greatest>> \o SortKeysDescending(keys \ {greatest})

\* slices.Sort of a set of keys
RECURSIVE SortKeys(_)
SortKeys(keys) ==
  IF keys = {} THEN <<>>
  ELSE LET least == CHOOSE k \in keys : \A o \in keys \ {k} : Less(k, o)
       IN <<least>> \o SortKeys(keys \ {least})

\* The "key=value" pairs of one key, in Values.Encode
RECURSIVE encodeKey(_, _)
encodeKey(k, vs) ==
  IF vs = <<>> THEN <<>>
  ELSE <<QueryEscape(k) \o <<"=">> \o QueryEscape(vs[1])>> \o encodeKey(k, Tail(vs))

RECURSIVE encodeKeys(_, _)
encodeKeys(v, keys) ==
  IF keys = <<>> THEN <<>>
  ELSE encodeKey(keys[1], v[keys[1]]) \o encodeKeys(v, Tail(keys))

\* Values.Encode()
Encode(v) == Join(encodeKeys(v, SortKeys(DOMAIN v)), <<"&">>)

---------------------------------------------------------------------------
(* packageurl.go *)

\* PackageURL{}
ZeroPackageURL ==
  [Type |-> <<>>, Namespace |-> <<>>, Name |-> <<>>, Version |-> <<>>,
   Qualifiers |-> EmptyValues, Subpath |-> <<>>]

\* QualifierKeyPattern.MatchString(key): ^[A-Za-z\.\-_][0-9A-Za-z\.\-_]*$
validQualifierKey(key) ==
  /\ key # <<>>
  /\ IsUpper(key[1]) \/ IsLower(key[1]) \/ key[1] \in {".", "-", "_"}
  /\ \A i \in 2..Len(key) : IsAlnum(key[i]) \/ key[i] \in {".", "-", "_"}

\* The body of the loop of getQualifiers over the keys in the order the map
\* iteration yields them: [status, q] with status "ok", "err" (an invalid
\* key) or "panic" (v[:1] of an empty value is out of range).
RECURSIVE rangeQualifiers(_, _)
rangeQualifiers(qualifiers, order) ==
  IF order = <<>> THEN [status |-> "ok", q |-> qualifiers]
  ELSE LET k == order[1]
           v == Get(qualifiers, k)
           normalisedValue == ToLower(SubSeq(v, 1, 1)) \o SubSeq(v, 2, Len(v))
           normalisedKey == ToLower(k)
       IN IF k \notin DOMAIN qualifiers THEN rangeQualifiers(qualifiers, Tail(order))
          ELSE IF ~validQualifierKey(k) THEN [status |-> "err", q |-> EmptyValues]
          ELSE IF Len(v) < 1 THEN [status |-> "panic", q |-> EmptyValues]
          ELSE IF normalisedKey # k
          THEN rangeQualifiers(Set(Del(qualifiers, k), normalisedKey, normalisedValue),
                               Tail(order))
          ELSE IF normalisedValue # v
          THEN rangeQualifiers(Set(qualifiers, k, normalisedValue), Tail(order))
          ELSE rangeQualifiers(qualifiers, Tail(order))

\* All orders in which a range over a map with these keys can yield them
RECURSIVE Orders(_)
Orders(keys) ==
  IF keys = {} THEN {<<>>}
  ELSE UNION {{<<k>> \o o : o \in Orders(keys \ {k})} : k \in keys}

\* getQualifiers, from the result of url.ParseQuery on: the set of outcomes,
\* one for each order in which the range over the map can yield its keys.
getQualifiersParsed(parsed) ==
  IF ~parsed.ok THEN {[status |-> "err", q |-> EmptyValues]}
  ELSE {rangeQualifiers(parsed.m, order) : order \in Orders(DOMAIN parsed.m)}

\* getQualifiers(rawQuery): the set of outcomes the call can produce
getQualifiers(rawQuery) == getQualifiersParsed(ParseQuery(rawQuery))

\* A variant of separateNamespaceNameVersion that cuts the version at the
\* first "@"; C23_PathDecomposition tells it from
\* separateNamespaceNameVersion.
separateNamespaceNameVersionFirstAt(path) ==
  LET namespaceSep == LastIndex(path, "/")
      rawNs == IF namespaceSep # 0 THEN SubSeq(path, 1, namespaceSep - 1) ELSE <<>>
      unit == IF namespaceSep # 0 THEN SubSeq(path, namespaceSep + 1, Len(path)) ELSE path
      ns == IF namespaceSep # 0 THEN PathUnescape(rawNs) ELSE [ok |-> TRUE, s |-> <<>>]
      versionSep == Index(unit, "@")
      rawName == IF versionSep # 0 THEN SubSeq(unit, 1, versionSep - 1) ELSE unit
      version == IF versionSep # 0 THEN PathUnescape(SubSeq(unit, versionSep + 1, Len(unit)))
                 ELSE [ok |-> TRUE, s |-> <<>>]
      name == PathUnescape(rawName)
      fail(e) == [err |-> e, ns |-> <<>>, name |-> <<>>, version |-> <<>>]
  IN IF ~ns.ok THEN fail("error unescaping namespace")
     ELSE IF ~version.ok THEN fail("error unescaping version")
     ELSE IF ~name.ok THEN fail("error unescaping name")
     ELSE IF name.s = <<>> THEN fail("purl is missing name")
     ELSE [err |-> "nil", ns |-> ns.s, name |-> name.s, version |-> version.s]

\* separateNamespaceNameVersion(path): [err, ns, name, version]
separateNamespaceNameVersion(path) ==
  LET namespaceSep == LastIndex(path, "/")
      rawNs == IF namespaceSep # 0 THEN SubSeq(path, 1, namespaceSep - 1) ELSE <<>>
      unit == IF namespaceSep # 0 THEN SubSeq(path, namespaceSep + 1, Len(path)) ELSE path
      ns == IF namespaceSep # 0 THEN PathUnescape(rawNs) ELSE [ok |-> TRUE, s |-> <<>>]
      versionSep == LastIndex(unit, "@")
      rawName == IF versionSep # 0 THEN SubSeq(unit, 1, versionSep - 1) ELSE unit
      version == IF versionSep # 0 THEN PathUnescape(SubSeq(unit, versionSep + 1, Len(unit)))
                 ELSE [ok |-> TRUE, s |-> <<>>]
      name == PathUnescape(rawName)
      fail(e) == [err |-> e, ns |-> <<>>, name |-> <<>>, version |-> <<>>]
  IN IF ~ns.ok THEN fail("error unescaping namespace")
     ELSE IF ~version.ok THEN fail("error unescaping version")
     ELSE IF ~name.ok THEN fail("error unescaping name")
     ELSE IF name.s = <<>> THEN fail("purl is missing name")
     ELSE [err |-> "nil", ns |-> ns.s, name |-> name.s, version |-> version.s]

\* A variant of typeAdjustNamespace without rpm and qpkg; C11_NamespaceAxis
\* tells it from typeAdjustNamespace.
typeAdjustNamespaceNoRPM(purlType, ns) ==
  IF purlType \in {TypeAlpm, TypeApk, TypeBitbucket, TypeComposer, TypeDebian,
                   TypeGithub, TypeGolang, TypeNPM}
  THEN ToLower(ns)
  ELSE ns

\* typeAdjustNamespace(purlType, ns)
typeAdjustNamespace(purlType, ns) ==
  IF purlType \in {TypeAlpm, TypeApk, TypeBitbucket, TypeComposer, TypeDebian,
                   TypeGithub, TypeGolang, TypeNPM, TypeRPM, TypeQpkg}
  THEN ToLower(ns)
  ELSE ns

\* strings.Contains(s, substr)
ContainsStr(s, substr) ==
  \E i \in 1..(Len(s) - Len(substr) + 1) : SubSeq(s, i, i + Len(substr) - 1) = substr

\* A variant of adjustMlflowName that looks for "databricks" first;
\* C13_MlflowName tells it from adjustMlflowName.
adjustMlflowNameDatabricksFirst(name, qualifiers) ==
  LET v == Get(qualifiers, <<"r", "e", "p", "o", "s", "i", "t", "o", "r", "y", "_", "u", "r", "l">>)
  IN IF ContainsStr(v, <<"d", "a", "t", "a", "b", "r", "i", "c", "k", "s">>)
     THEN ToLower(name)
     ELSE name

\* adjustMlflowName(name, qualifiers)
adjustMlflowName(name, qualifiers) ==
  LET v == Get(qualifiers, <<"r", "e", "p", "o", "s", "i", "t", "o", "r", "y", "_", "u", "r", "l">>)
  IN IF v = <<>> THEN name
     ELSE IF ContainsStr(v, <<"a", "z", "u", "r", "e", "m", "l">>) THEN name
     ELSE IF ContainsStr(v, <<"d", "a", "t", "a", "b", "r", "i", "c", "k", "s">>)
     THEN ToLower(name)
     ELSE name

\* A variant of typeAdjustName that only lower-cases the pypi name;
\* C10_NameAxis tells it from typeAdjustName.
typeAdjustNameLowerOnly(purlType, name, qualifiers) ==
  IF purlType \in {TypeAlpm, TypeApk, TypeBitbucket, TypeComposer, TypeDebian,
                   TypeGithub, TypeGolang, TypeNPM, TypePyPi}
  THEN ToLower(name)
  ELSE IF purlType = TypeMLFlow THEN adjustMlflowName(name, qualifiers)
  ELSE name

\* typeAdjustName(purlType, name, qualifiers)
typeAdjustName(purlType, name, qualifiers) ==
  IF purlType \in {TypeAlpm, TypeApk, TypeBitbucket, TypeComposer, TypeDebian,
                   TypeGithub, TypeGolang, TypeNPM}
  THEN ToLower(name)
  ELSE IF purlType = TypePyPi THEN ToLower(ReplaceAll(name, "_", "-"))
  ELSE IF purlType = TypeMLFlow THEN adjustMlflowName(name, qualifiers)
  ELSE name

\* A variant of typeAdjustVersion that lower-cases the version of every
\* type; C12_VersionAxis tells it from typeAdjustVersion.
typeAdjustVersionAlways(purlType, version) == ToLower(version)

\* typeAdjustVersion(purlType, version)
typeAdjustVersion(purlType, version) ==
  IF purlType = TypeHuggingface THEN ToLower(version) ELSE version

channel == <<"c", "h", "a", "n", "n", "e", "l">>

\* A variant of validCustomRules without the version rules of swift and cran;
\* C8_MandatoryFields tells it from validCustomRules.
validCustomRulesNamespaceOnly(p) ==
  IF p.Type = TypeSwift /\ p.Namespace = <<>> THEN "namespace is required" ELSE "nil"

\* A variant of validCustomRules whose conan rule looks only at the presence
\* of the channel qualifier; C9_ConanChannel tells it from validCustomRules.
validCustomRulesChannelPresent(p) ==
  IF p.Type = TypeConan /\ p.Namespace # <<>> /\ ~Has(p.Qualifiers, channel)
  THEN "channel qualifier does not exist"
  ELSE IF p.Type = TypeConan /\ p.Namespace = <<>> /\ Has(p.Qualifiers, channel)
  THEN "namespace is required if channel is non empty"
  ELSE "nil"

\* validCustomRules(p): "nil" or the error
validCustomRules(p) ==
  LET q == p.Qualifiers
      channelSet == Has(q, channel)
      nsSet == p.Namespace # <<>>
  IN IF p.Type = TypeConan
     THEN IF nsSet /\ channelSet
          THEN IF Get(q, channel) = <<>>
               THEN "the qualifier channel must be not empty if namespace is present"
               ELSE "nil"
          ELSE IF nsSet /\ ~channelSet THEN "channel qualifier does not exist"
          ELSE IF ~nsSet /\ channelSet
          THEN IF Get(q, channel) # <<>>
               THEN "namespace is required if channel is non empty"
               ELSE "nil"
          ELSE "nil"
     ELSE IF p.Type = TypeSwift
     THEN IF p.Namespace = <<>> THEN "namespace is required"
          ELSE IF p.Version = <<>> THEN "version is required"
          ELSE "nil"
     ELSE IF p.Type = TypeCran
     THEN IF p.Version = <<>> THEN "version is required" ELSE "nil"
     ELSE "nil"

pkg == <<"p", "k", "g">>

\* (*PackageURL).ToString()
ToString(p) ==
  LET u == [ZeroURL EXCEPT !.Scheme = pkg, !.RawQuery = Encode(p.Qualifiers),
                           !.Fragment = p.Subpath]
      nameWithVersion == PathEscape(p.Name)
                         \o (IF p.Version # <<>> THEN <<"@">> \o p.Version ELSE <<>>)
      joined == JoinPath(u, <<p.Type, p.Namespace, nameWithVersion>>)
  IN URLString([joined EXCEPT !.Opaque = EscapedPath(joined), !.Path = <<>>])

\* The results of FromString are [err, purl]; err is "nil", the error, or
\* "panic" when the call does not return.  Every early return of FromString
\* hands back the zero PackageURL.
ZeroResult(e) == [err |-> e, purl |-> ZeroPackageURL]

\* FromString, from the assembled record on: the record is returned together
\* with the result of validCustomRules.
FromStringValidate(pURL) == [err |-> validCustomRules(pURL), purl |-> pURL]

\* FromString, from the results of getQualifiers and
\* separateNamespaceNameVersion on.
FromStringFields(typ, u, qualifiers, parts) ==
  IF qualifiers.status = "panic" THEN ZeroResult("panic")
  ELSE IF qualifiers.status = "err" THEN ZeroResult("invalid qualifiers")
  ELSE IF parts.err # "nil" THEN ZeroResult(parts.err)
  ELSE FromStringValidate([Type |-> typ,
                           Namespace |-> typeAdjustNamespace(typ, parts.ns),
                           Name |-> typeAdjustName(typ, parts.name, qualifiers.q),
                           Version |-> typeAdjustVersion(typ, parts.version),
                           Qualifiers |-> qualifiers.q,
                           Subpath |-> Trim(u.Fragment, "/")])

\* FromString, from the cut of the path at its first "/" on.
FromStringCut(cut, u) ==
  IF ~cut.found THEN {ZeroResult("purl is missing type or name")}
  ELSE {FromStringFields(ToLower(cut.before), u, qualifiers,
                         separateNamespaceNameVersion(cut.after)) :
          qualifiers \in getQualifiers(u.RawQuery)}

\* FromString, from the parsed URL on.
FromStringURL(parsedURL) ==
  IF ~parsedURL.ok THEN {ZeroResult("failed to parse as URL")}
  ELSE IF parsedURL.u.Scheme # pkg THEN {ZeroResult("purl scheme is not \"pkg\"")}
  ELSE FromStringCut(Cut(IF parsedURL.u.Opaque = <<>>
                         THEN TrimPrefix(PathJoin(<<parsedURL.u.Host, parsedURL.u.Path>>),
                                         <<"/">>)
                         ELSE parsedURL.u.Opaque, "/"),
                     parsedURL.u)

\* FromString(purl): the set of results the call can produce (more than one
\* when the outcome depends on the map iteration order in getQualifiers).
FromString(purl) == FromStringURL(Parse(purl))

---------------------------------------------------------------------------
(* Normalize, which no source file holds: modelled from the specification *)

\* The qualifiers of a caller-built record in canonical form: [status, q],
\* status "err" for a key outside the pattern or a key held twice; keys
\* lower-cased, the first character of a value lower-cased, empty values
\* dropped
normalizeQualifiers(q) ==
  IF \E k \in DOMAIN q : ~validQualifierKey(k) THEN [status |-> "err", q |-> EmptyValues]
  ELSE IF \/ \E k \in DOMAIN q : Len(q[k]) > 1
          \/ \E k, l \in DOMAIN q : k # l /\ ToLower(k) = ToLower(l)
       THEN [status |-> "err", q |-> EmptyValues]
  ELSE [status |-> "ok",
        q |-> [n \in {ToLower(k) : k \in {l \in DOMAIN q : Get(q, l) # <<>>}} |->
                 LET k == CHOOSE l \in DOMAIN q : ToLower(l) = n
                 IN <<ToLower(SubSeq(Get(q, k), 1, 1)) \o SubSeq(Get(q, k), 2, Len(Get(q, k)))>>]]

\* A variant of the subpath rule that rejects "." and ".." as the first
\* segment too; C22_SubpathTraversal tells it from validSubpath.
validSubpathNoPrefix(subpath) ==
  \A i \in 1..Len(Split(subpath, "/")) :
    Split(subpath, "/")[i] \notin {<<".">>, <<".", ".">>}

\* The subpath, trimmed of "/", has no "." or ".." segment after its first
validSubpath(subpath) ==
  \A i \in 2..Len(Split(subpath, "/")) :
    Split(subpath, "/")[i] \notin {<<".">>, <<".", ".">>}

\* Normalize, from the normalized qualifiers on
NormalizeFields(p, qualifiers) ==
  IF p.Type = <<>> THEN [err |-> "type is required", purl |-> p]
  ELSE IF p.Name = <<>> THEN [err |-> "name is required", purl |-> p]
  ELSE IF qualifiers.status = "err" THEN [err |-> "invalid qualifiers", purl |-> p]
  ELSE IF ~validSubpath(Trim(p.Subpath, "/"))
       THEN [err |-> "invalid subpath segment", purl |-> p]
  ELSE FromStringValidate(
         [Type |-> ToLower(p.Type),
          Namespace |-> typeAdjustNamespace(ToLower(p.Type), Trim(p.Namespace, "/")),
          Name |-> typeAdjustName(ToLower(p.Type), p.Name, qualifiers.q),
          Version |-> typeAdjustVersion(ToLower(p.Type), p.Version),
          Qualifiers |-> qualifiers.q,
          Subpath |-> Trim(p.Subpath, "/")])

\* (*PackageURL).Normalize(): [err, purl], purl the record after the call
Normalize(p) == NormalizeFields(p, normalizeQualifiers(p.Qualifiers))

---------------------------------------------------------------------------
(* part_000: the qualifiers as a slice of key=value pairs *)

\* Qualifier{Key, Value}
Qualifier(key, value) == [Key |-> key, Value |-> value]

\* The url.Values that urlQuery fills from the slice, pair by pair
RECURSIVE addQualifiers(_, _)
addQualifiers(v, q) ==
  IF q = <<>> THEN v
  ELSE addQualifiers(Add(v, q[1].Key, q[1].Value), Tail(q))

\* (Qualifiers).urlQuery()
urlQuery(q) == Encode(addQualifiers(EmptyValues, q))

\* parseQualifiers(rawQuery), from the slice q collected so far on:
\* [status, q], status "ok", "err", or "panic" when the call does not return
RECURSIVE parseQualifiersFrom(_, _)
parseQualifiersFrom(q, rawQuery) ==
  IF rawQuery = <<>> THEN [status |-> "ok", q |-> q]
  ELSE LET part == Cut(rawQuery, "&")
           kv == Cut(part.before, "=")
           key == QueryUnescape(kv.before)
           value == QueryUnescape(kv.after)
       IN IF Contains(part.before, ";") THEN [status |-> "err", q |-> <<>>]
          ELSE IF part.before = <<>> THEN parseQualifiersFrom(q, part.after)
          ELSE IF ~key.ok THEN [status |-> "err", q |-> <<>>]
          ELSE IF ~validQualifierKey(key.s) THEN [status |-> "err", q |-> <<>>]
          ELSE IF ~value.ok THEN [status |-> "err", q |-> <<>>]
          ELSE IF Len(value.s) < 1 THEN [status |-> "panic", q |-> <<>>]
          ELSE parseQualifiersFrom(
                 Append(q, Qualifier(ToLower(key.s),
                                     ToLower(SubSeq(value.s, 1, 1))
                                     \o SubSeq(value.s, 2, Len(value.s)))),
                 part.after)

\* parseQualifiers(rawQuery)
parseQualifiers(rawQuery) == parseQualifiersFrom(<<>>, rawQuery)

\* map[string]string{}
EmptyMap == [k \in {} |-> <<>>]

\* sort.Slice(q, func(i, j) { return q[i].Key < q[j].Key }): the sort is not
\* stable, so every arrangement of q in which no key is followed by a lesser
\* one is a possible result
sortSlice(q) ==
  {[i \in 1..Len(q) |-> q[o[i]]] :
     o \in {p \in Orders(1..Len(q)) :
              \A i, j \in 1..Len(q) : i < j => ~Less(q[p[j]].Key, q[p[i]].Key)}}

\* A variant of QualifiersFromMap that leaves out the sort;
\* C21_MapConversion tells it from QualifiersFromMap.
QualifiersFromMapUnsorted(m) ==
  {[i \in 1..Len(o) |-> Qualifier(o[i], m[o[i]])] : o \in Orders(DOMAIN m)}

\* QualifiersFromMap(mm): the set of results, over the orders in which the
\* range over the map can yield its entries
QualifiersFromMap(m) ==
  UNION {sortSlice([i \in 1..Len(o) |-> Qualifier(o[i], m[o[i]])]) : o \in Orders(DOMAIN m)}

\* The loop of Map over the slice: m[k] = v for each pair in turn
RECURSIVE mapFrom(_, _)
mapFrom(m, q) ==
  IF q = <<>> THEN m
  ELSE mapFrom([k \in DOMAIN m \cup {q[1].Key} |->
                  IF k = q[1].Key THEN q[1].Value ELSE m[k]], Tail(q))

\* (Qualifiers).Map()
Map(q) == mapFrom(EmptyMap, q)

---------------------------------------------------------------------------
(* The inputs: purl strings and caller-built records *)

\* The number of tokens in a generated path, the number of key=value pairs in
\* a generated query, and the number of tokens in a generated record field.
MaxBodyToks == 3
MaxPairs == 2
MaxFieldToks == 2

\* All concatenations of at most n of the tokens
RECURSIVE TokStrings(_, _)
TokStrings(toks, n) ==
  IF n = 0 THEN {<<>>}
  ELSE {<<>>} \cup {tok \o s : tok \in toks, s \in TokStrings(toks, n - 1)}

\* All '&'-joined lists of at most n of the pairs
RECURSIVE PairLists(_, _)
PairLists(pairs, n) ==
  IF n = 0 THEN {<<>>}
  ELSE {<<>>} \cup pairs
       \cup {pr \o <<"&">> \o s : pr \in pairs, s \in PairLists(pairs, n - 1) \ {<<>>}}

BodyToks == {<<"n">>,
             <<"N">>,
             <<"/">>,
             <<"@">>,
             <<"%", "2", "0">>,
             <<"%", "4", "0">>,
             <<"%", "2", "F">>,
             <<"%", "2", "5">>,
             <<"%">>}

Bodies == TokStrings(BodyToks, MaxBodyToks)

QueryKeyToks == {<<"k">>,
   <<"K">>,
   <<"1", "k">>}
QueryValueToks == {<<>>,
   <<"v">>,
   <<"V", "%", "2", "0", "w">>,
   <<"%", "z", "z">>}

QueryPairs ==
  QueryKeyToks \cup {k \o <<"=">> \o v : k \in QueryKeyToks, v \in QueryValueToks}

Queries == PairLists(QueryPairs, MaxPairs)

\* A purl string from its parts
Purl(prefix, type, body, query, fragment) ==
  prefix \o type \o <<"/">> \o body
  \o (IF query # <<>> THEN <<"?">> \o query ELSE <<>>)
  \o (IF fragment # <<>> THEN <<"#">> \o fragment ELSE <<>>)

pkgColon == <<"p", "k", "g", ":">>

TypeUnknown == <<"t">>
TypeUpperNPM == <<"N", "P", "M">>

\* Paths for every type: names and namespaces with upper-case letters and '_'
TypedBodies ==
  {<<"N", "a", "_", "M", "e">>,
   <<"N", "S", "/", "N", "a", "_", "M", "e", "@", "V", "1">>,
   <<"N", "%", "6", "1">>,
   <<"n", "@", "1">>,
   <<"N", "S", "/", "n">>,
   <<"/", "n", "@", "1">>,
   <<"n", "s", "/", "n", "@">>,
   <<"N", "%", "5", "3", "/", "A", "/", "n", "@", "1">>}

ConanBodies == {<<"n", "@", "1">>,
   <<"n", "s", "/", "n", "@", "1">>}
ConanQueries == {<<>>,
   <<"c", "h", "a", "n", "n", "e", "l", "=", "c">>,
   <<"c", "h", "a", "n", "n", "e", "l", "=">>,
   <<"c", "h", "a", "n", "n", "e", "l">>,
   <<"k", "=", "v">>}

Fragments == {<<"s", "/", "p">>,
   <<"/", "s", "/", "p", "/">>,
   <<"s", "%", "2", "0", "p">>,
   <<"s", "#", "p">>,
   <<"%", "z", "z">>}

Prefixes == {<<"p", "k", "g", ":", "/", "/">>,
   <<"p", "k", "g", ":", "/">>,
   <<"P", "K", "G", ":">>,
   <<"P", "k", "g", ":">>,
   <<"h", "t", "t", "p", ":">>,
   <<>>}
PrefixBodies == {<<"n">>,
   <<"n", "s", "/", "n", "@", "1">>,
   <<"a", "%", "2", "F", "b">>,
   <<"a", "%", "2", "5", "4", "1">>,
   <<"a", "/", ".", ".", "/", "b">>}

\* Strings of the shape "pkg:t/<namespace>/<name>@<version>?k=<value>#<subpath>"
\* whose parts are plain or hold a pre-encoded character
PlainSegment == <<"n">>
EncodedSegment == <<"n", "%", "2", "0", "n">>
RawSpaceSegment == <<"n", " ", "n">>
EncodedAt == <<"n", "%", "4", "0", "n">>
EncodedQuestion == <<"n", "%", "3", "F", "n">>
EncodedHash == <<"n", "%", "2", "3", "n">>

EncodingPurl(ns, n, v, val, sp) ==
  Purl(pkgColon, TypeUnknown, ns \o <<"/">> \o n \o <<"@">> \o v, <<"k", "=">> \o val, sp)

EncodingPurls ==
  {EncodingPurl(ns, n, v, val, sp) :
     ns \in {PlainSegment, EncodedSegment, RawSpaceSegment, EncodedAt, EncodedQuestion,
             EncodedHash},
     n \in {PlainSegment, EncodedSegment}, v \in {PlainSegment, EncodedSegment},
     val \in {PlainSegment, EncodedSegment}, sp \in {PlainSegment, EncodedSegment}}

\* mlflow purls: the name "Na" with the repository_url qualifier absent and
\* with values that hold "azureml", "databricks", both, or neither
RepositoryURLs ==
  {<<"a", "z", "u", "r", "e", "m", "l">>,
   <<"d", "a", "t", "a", "b", "r", "i", "c", "k", "s">>,
   <<"a", "z", "u", "r", "e", "m", "l", ".", "d", "a", "t", "a", "b", "r", "i", "c", "k", "s">>,
   <<"d", "a", "t", "a", "b", "r", "i", "c", "k", "s", ".", "a", "z", "u", "r", "e", "m", "l">>,
   <<"x", ".", "D", "a", "t", "a", "b", "r", "i", "c", "k", "s">>,
   <<"x">>}
MlflowQueries ==
  {<<>>, <<"k", "=">> \o <<"d", "a", "t", "a", "b", "r", "i", "c", "k", "s">>}
  \cup {<<"r", "e", "p", "o", "s", "i", "t", "o", "r", "y", "_", "u", "r", "l">> \o <<"=">> \o v : v \in RepositoryURLs}
MlflowPurls == {Purl(pkgColon, TypeMLFlow, <<"N", "a">>, q, <<>>) : q \in MlflowQueries}

\* The inputs of TestUnparsable
TypeWithColon ==
  <<"p", "k", "g", ":", "t", "y", "p", ":", "e", "/", "n", "a", "m", "e", "/", "s", "p", "a", "c", "e", "/", "n", "a", "m", "e", "@", "v", "e", "r", "s", "i", "o", "n", "?", "k", "e", "y", "=", "v", "a", "l", "u", "e", "#", "s", "u", "b", "/", "p", "a", "t", "h">>
TypeStartingWithDigit ==
  <<"p", "k", "g", ":", "1", "t", "y", "p", "e", "/", "n", "a", "m", "e", "/", "s", "p", "a", "c", "e", "/", "n", "a", "m", "e", "@", "v", "e", "r", "s", "i", "o", "n", "?", "k", "e", "y", "=", "v", "a", "l", "u", "e", "#", "s", "u", "b", "/", "p", "a", "t", "h">>
KeyWithColon ==
  <<"p", "k", "g", ":", "t", "y", "p", "e", "/", "n", "a", "m", "e", "/", "s", "p", "a", "c", "e", "/", "n", "a", "m", "e", "@", "v", "e", "r", "s", "i", "o", "n", "?", "k", "e", ":", "y", "=", "v", "a", "l", "u", "e", "#", "s", "u", "b", "/", "p", "a", "t", "h">>
KeyStartingWithDigit ==
  <<"p", "k", "g", ":", "t", "y", "p", "e", "/", "n", "a", "m", "e", "/", "s", "p", "a", "c", "e", "/", "n", "a", "m", "e", "@", "v", "e", "r", "s", "i", "o", "n", "?", "1", "k", "e", "y", "=", "v", "a", "l", "u", "e", "#", "s", "u", "b", "/", "p", "a", "t", "h">>
SecondAt ==
  <<"p", "k", "g", ":", "t", "y", "p", "e", "/", "n", "a", "m", "e", "/", "s", "p", "a", "c", "e", "/", "n", "a", "m", "e", "@", "v", "e", "r", "s", "i", "o", "@", "n", "?", "k", "e", "y", "=", "v", "a", "l", "u", "e", "#", "s", "u", "b", "/", "p", "a", "t", "h">>
SecondQuestion ==
  <<"p", "k", "g", ":", "t", "y", "p", "e", "/", "n", "a", "m", "e", "/", "s", "p", "a", "c", "e", "/", "n", "a", "m", "e", "@", "v", "e", "r", "s", "i", "o", "n", "?", "k", "e", "y", "=", "v", "a", "l", "u", "?", "e", "#", "s", "u", "b", "/", "p", "a", "t", "h">>
SecondHash ==
  <<"p", "k", "g", ":", "t", "y", "p", "e", "/", "n", "a", "m", "e", "/", "s", "p", "a", "c", "e", "/", "n", "a", "m", "e", "@", "v", "e", "r", "s", "i", "o", "n", "?", "k", "e", "y", "=", "v", "a", "l", "u", "e", "#", "s", "u", "b", "/", "p", "a", "t", "#", "h">>
UnparsablePurls ==
  {TypeWithColon, TypeStartingWithDigit, KeyWithColon, KeyStartingWithDigit, SecondAt, SecondQuestion, SecondHash}

\* Queries with a key outside the key pattern, written out or percent-encoded
UnparsableQueries ==
  {<<"k", "e", ":", "y", "=", "v", "a", "l", "u", "e">>,
   <<"1", "k", "e", "y", "=", "v", "a", "l", "u", "e">>,
   <<"%", "3", "1", "k", "=", "v">>,
   <<"k", "=", "&", "1", "k", "=", "v">>}

\* Strings with a doubled or an encoded separator around the namespace
DoubledSeparatorPurls ==
  {<<"p", "k", "g", ":", "n", "p", "m", "/", "/", "n", "s", "/", "/", "n", "a", "m", "e">>,
   <<"p", "k", "g", ":", "n", "p", "m", "/", "n", "s", "/", "/", "n">>,
   <<"p", "k", "g", ":", "n", "p", "m", "/", "%", "2", "F", "n", "s", "/", "n">>}

\* A string with two keys that differ in case only, both with an upper-case
\* letter
MixedCaseKeysPurl ==
  <<"p", "k", "g", ":", "n", "p", "m", "/", "n", "?", "A", "b", "=", "1", "&", "a", "B", "=", "2">>

\* Queries of one pair whose value starts with a two-byte character, upper
\* case (U+00C9) or lower case (U+00E9), percent-encoded
NonASCIIValueQueries ==
  {<<"k", "=", "%", "C", "3", "%", "8", "9", "x">>,
   <<"k", "=", "%", "C", "3", "%", "A", "9", "X">>}

Purls ==
  {Purl(pkgColon, TypeNPM, b, <<>>, <<>>) : b \in Bodies}
  \cup {Purl(pkgColon, ty, b, <<>>, <<>>) :
          ty \in KnownTypes \cup {TypeUnknown, TypeUpperNPM}, b \in TypedBodies}
  \cup {Purl(pkgColon, TypeNPM, <<"n">>, q, <<>>) : q \in Queries}
  \cup {Purl(pkgColon, TypeConan, b, q, <<>>) : b \in ConanBodies, q \in ConanQueries}
  \cup {Purl(pkgColon, TypeUnknown, <<"n", "@", "1">>, <<"k", "=", "v">>, f) : f \in Fragments}
  \cup {Purl(pre, TypeNPM, b, <<>>, <<>>) : pre \in Prefixes, b \in PrefixBodies}
  \cup EncodingPurls
  \cup MlflowPurls
  \cup UnparsablePurls
  \cup DoubledSeparatorPurls
  \cup {MixedCaseKeysPurl}
  \cup {Purl(pkgColon, TypeNPM, <<"n">>, q, <<>>) : q \in NonASCIIValueQueries}
  \cup {Purl(pkgColon, TypeNPM, <<"n">>, q, <<>>) : q \in UnparsableQueries}

FieldToks == {<<"n">>,
              <<"N">>,
              <<"/">>,
              <<"@">>,
              <<"%">>,
              <<" ">>,
              <<".">>}

Fields == TokStrings(FieldToks, MaxFieldToks)

\* url.Values with one value per key
OneValue(k, v) == Set(EmptyValues, k, v)

RecordQualifiers ==
  {EmptyValues, OneValue(<<"k">>, <<"v">>), OneValue(<<"k">>, <<"V", " ", "w">>),
   OneValue(<<"K">>, <<"v">>), OneValue(<<"k">>, <<>>),
   Set(OneValue(<<"k">>, <<"v">>), <<"b">>, <<"w">>),
   Set(Set(OneValue(<<"k">>, <<"v">>), <<"b">>, <<"w">>), <<"K">>, <<"x">>),
   Add(OneValue(<<"k">>, <<"v">>), <<"k">>, <<"w">>)}

ChannelQualifiers ==
  {EmptyValues, OneValue(channel, <<"c">>), OneValue(channel, <<>>),
   OneValue(<<"k">>, <<"v">>),
   Set(OneValue(channel, <<"c">>), <<"k">>, <<"v">>)}

Subpaths == {<<>>,
   <<"s", "/", "p">>,
   <<"/", "s", "/">>,
   <<"s", " ", "p">>,
   <<".", "/", "s">>}

\* The subpaths of the Normalize tests, and one that ends in ".."
TestSubpaths ==
  {<<"/", "s", "u", "b", "/", "p", "a", "t", "h", "/">>,
   <<"/", "s", "u", "b", "/", ".", "/", "p", "a", "t", "h", "/">>,
   <<"/", "s", "u", "b", "/", ".", ".", "/", "p", "a", "t", "h", "/">>,
   <<"s", "u", "b", "/", ".", ".", "/", "p", "a", "t", "h">>,
   <<".", "/", "s", "u", "b", "/", "p", "a", "t", "h">>,
   <<".", ".", "/", "s", "u", "b", "/", "p", "a", "t", "h">>,
   <<"s", "u", "b", "/", ".", ".">>}

PackageURL(type, namespace, name, version, qualifiers, subpath) ==
  [Type |-> type, Namespace |-> namespace, Name |-> name, Version |-> version,
   Qualifiers |-> qualifiers, Subpath |-> subpath]

Records ==
  {PackageURL(ty, ns, n, v, q, <<>>) :
     ty \in {TypeUnknown, TypeNPM}, ns \in {<<>>, <<"n", "s">>}, n \in Fields,
     v \in {<<>>, <<"1">>}, q \in {EmptyValues, OneValue(<<"k">>, <<"v">>)}}
  \cup {PackageURL(TypeUnknown, ns, <<"n">>, v, EmptyValues, <<>>) :
          ns \in {<<>>, <<"n", "s">>}, v \in Fields}
  \cup {PackageURL(TypeUnknown, ns, <<"n">>, <<"1">>, EmptyValues, <<>>) : ns \in Fields}
  \cup {PackageURL(TypeUnknown, <<>>, <<"n">>, <<"1">>, q, sp) :
          q \in RecordQualifiers, sp \in Subpaths}
  \cup {PackageURL(ty, ns, <<"n">>, v, q, <<>>) :
          ty \in {TypeConan, TypeSwift, TypeCran, TypeUnknown},
          ns \in {<<>>, <<"n", "s">>}, v \in {<<>>, <<"1">>}, q \in ChannelQualifiers}
  \cup {PackageURL(TypeDebian, <<>>, n, <<>>, EmptyValues, <<>>) :
          n \in {<<"a", "b", "c">>, <<"a", "b", "/", "c">>}}
  \cup {PackageURL(TypeNPM, <<>>, <<"p", "k", "g">>, <<>>, EmptyValues, sp) :
          sp \in TestSubpaths}
  \cup {PackageURL(ty, ns, <<"n">>, v, EmptyValues, <<>>) :
          ty \in {<<>>, <<"%", "2", "F", "a">>, <<"%", "2", "F", "%", "2", "F", "a">>}, ns \in {<<>>, <<"/", "x">>, <<"%", "2", "F", "a", " ", "b">>, <<"%", "z", "z">>},
          v \in {<<>>, <<"1", " ", "2">>}}

---------------------------------------------------------------------------
(* The calls *)

\* Qualifier slices of at most MaxPairs pairs, keys repeated or not, values
\* empty or not
SliceKeys == {<<"a">>, <<"b">>, <<"B">>}
SliceValues == {<<>>, <<"v">>, <<"w", " ", "x">>}
RECURSIVE Slices(_)
Slices(n) ==
  IF n = 0 THEN {<<>>}
  ELSE {<<>>} \cup {<<Qualifier(k, v)>> \o s :
                      k \in SliceKeys, v \in SliceValues, s \in Slices(n - 1)}
QualifierSlices == Slices(MaxPairs)

\* The string maps over the keys and values of the slices
Maps == UNION {[ks -> SliceValues] : ks \in SUBSET SliceKeys}

NoQualifiers == [status |-> "unset", q |-> <<>>]

NoResult == [err |-> "unset", purl |-> ZeroPackageURL]

Init ==
  /\ \/ /\ kind = "str" /\ pc = "string" /\ s1 \in Purls /\ rec0 = ZeroPackageURL
        /\ qq = <<>> /\ rq = <<>>
     \/ /\ kind = "rec" /\ pc = "record" /\ rec0 \in Records /\ s1 = <<>>
        /\ qq = <<>> /\ rq = <<>>
     \/ /\ kind = "slice" /\ pc = "slice" /\ qq \in QualifierSlices /\ rq = <<>>
        /\ s1 = <<>> /\ rec0 = ZeroPackageURL
     \/ /\ kind = "query" /\ pc = "query" /\ rq \in Queries \cup UnparsableQueries \cup NonASCIIValueQueries
        /\ qq = <<>>
        /\ s1 = <<>> /\ rec0 = ZeroPackageURL
     \/ /\ kind = "map" /\ pc = "map" /\ qq = <<>> /\ rq = <<>>
        /\ s1 = <<>> /\ rec0 = ZeroPackageURL
  /\ IF kind = "map" THEN mm \in Maps ELSE mm = EmptyMap
  /\ mr = EmptyMap
  /\ qr = <<>>
  /\ nres = NoResult
  /\ pq = NoQualifiers
  /\ r1 = NoResult
  /\ s2 = <<>>
  /\ r2 = NoResult
  /\ vres = "unset"

\* validCustomRules(rec0) on a caller-built record
CallValidCustomRules ==
  /\ pc = "record"
  /\ vres' = validCustomRules(rec0)
  /\ pc' = "validated"
  /\ UNCHANGED <<kind, rec0, s1, r1, s2, r2, qq, rq, pq>>
  /\ UNCHANGED <<mm, mr, qr, nres>>

\* ToString(): on the caller-built record rec0, giving s1, or on the record
\* r1.purl that FromString returned without error, giving s2
CallToString ==
  /\ pc \in {"record", "parsed"}
  /\ pc = "parsed" => r1.err = "nil"
  /\ \E s \in {ToString(IF pc = "record" THEN rec0 ELSE r1.purl)} :
       /\ s1' = IF pc = "record" THEN s ELSE s1
       /\ s2' = IF pc = "record" THEN s2 ELSE s
  /\ pc' = IF pc = "record" THEN "string" ELSE "printed"
  /\ UNCHANGED <<kind, rec0, r1, r2, vres, qq, rq, pq>>
  /\ UNCHANGED <<mm, mr, qr, nres>>

\* FromString(): on the string s1, giving r1, or on the string s2 that
\* ToString printed, giving r2
CallFromString ==
  /\ pc \in {"string", "printed"}
  /\ \E r \in FromString(IF pc = "string" THEN s1 ELSE s2) :
       /\ r1' = IF pc = "string" THEN r ELSE r1
       /\ r2' = IF pc = "string" THEN r2 ELSE r
  /\ pc' = IF pc = "string" THEN "parsed" ELSE "reparsed"
  /\ UNCHANGED <<kind, rec0, s1, s2, vres, qq, rq, pq>>
  /\ UNCHANGED <<mm, mr, qr, nres>>

\* part_000: qq.urlQuery() on a caller-built slice
CallUrlQuery ==
  /\ pc = "slice"
  /\ rq' = urlQuery(qq)
  /\ pc' = "query"
  /\ UNCHANGED <<kind, rec0, s1, r1, s2, r2, vres, qq, pq>>
  /\ UNCHANGED <<mm, mr, qr, nres>>

\* part_000: parseQualifiers(rq)
CallParseQualifiers ==
  /\ pc = "query"
  /\ pq' = parseQualifiers(rq)
  /\ pc' = "qualifiers"
  /\ UNCHANGED <<kind, rec0, s1, r1, s2, r2, vres, qq, rq>>
  /\ UNCHANGED <<mm, mr, qr, nres>>

\* part_000: QualifiersFromMap, on the caller's map mm or on the map mr that
\* Map returned
CallQualifiersFromMap ==
  /\ \/ kind = "map" /\ pc = "map"
     \/ kind = "slice" /\ pc = "mapped"
  /\ qr' \in QualifiersFromMap(IF kind = "map" THEN mm ELSE mr)
  /\ pc' = IF kind = "map" THEN "fromMap" ELSE "sliceBack"
  /\ UNCHANGED <<kind, rec0, s1, r1, s2, r2, vres, qq, rq, pq, mm, mr, nres>>

\* part_000: (Qualifiers).Map(), on the caller's slice qq or on the slice qr
\* that QualifiersFromMap returned
CallMap ==
  /\ \/ kind = "slice" /\ pc = "slice"
     \/ kind = "map" /\ pc = "fromMap"
  /\ mr' = Map(IF kind = "slice" THEN qq ELSE qr)
  /\ pc' = IF kind = "slice" THEN "mapped" ELSE "mapBack"
  /\ UNCHANGED <<kind, rec0, s1, r1, s2, r2, vres, qq, rq, pq, mm, qr, nres>>

\* rec0.Normalize() on a caller-built record
CallNormalize ==
  /\ pc = "record"
  /\ nres' = Normalize(rec0)
  /\ pc' = "normalized"
  /\ UNCHANGED <<kind, rec0, s1, r1, s2, r2, vres, qq, rq, pq, mm, mr, qr>>

Next ==
  \/ CallValidCustomRules
  \/ CallToString
  \/ CallFromString
  \/ CallUrlQuery
  \/ CallParseQualifiers
  \/ CallQualifiersFromMap
  \/ CallMap
  \/ CallNormalize

Spec == Init /\ [][Next]_vars

---------------------------------------------------------------------------
(* Properties *)

\* A record in canonical form: non-empty lower-case Type, non-empty Name,
\* Namespace, Name and Version as the type adjustments leave them, qualifier
\* keys valid and lower-case with one non-empty value each, Subpath without a
\* leading or trailing "/", and the per-type rules satisfied.
Canonical(p) ==
  /\ p.Type # <<>>
  /\ \A i \in 1..Len(p.Type) : ~IsUpper(p.Type[i])
  /\ p.Name # <<>>
  /\ typeAdjustNamespace(p.Type, p.Namespace) = p.Namespace
  /\ typeAdjustName(p.Type, p.Name, p.Qualifiers) = p.Name
  /\ typeAdjustVersion(p.Type, p.Version) = p.Version
  /\ \A k \in DOMAIN p.Qualifiers :
        /\ validQualifierKey(k)
        /\ \A i \in 1..Len(k) : ~IsUpper(k[i])
        /\ Len(p.Qualifiers[k]) = 1
        /\ p.Qualifiers[k][1] # <<>>
  /\ ~HasPrefix(p.Subpath, <<"/">>)
  /\ ~HasSuffix(p.Subpath, <<"/">>)
  /\ validCustomRules(p) = "nil"

\* C1: for every canonical record rec0 that satisfies the per-type rules,
\* FromString(ToString(rec0)) returns no error and a record equal to rec0 in
\* every field.
C1_RoundTrip ==
  (kind = "rec" /\ pc = "parsed" /\ Canonical(rec0))
    => (r1.err = "nil" /\ r1.purl = rec0)

\* The strings in canonical form among the inputs: every part plain or with a
\* pre-encoded %20.
CanonicalPurls ==
  {EncodingPurl(ns, n, v, val, sp) :
     ns \in {PlainSegment, EncodedSegment}, n \in {PlainSegment, EncodedSegment},
     v \in {PlainSegment, EncodedSegment}, val \in {PlainSegment, EncodedSegment},
     sp \in {PlainSegment, EncodedSegment}}

\* C2: for every string s1 in canonical form, also with a pre-encoded %20 in
\* the namespace, name, version, qualifier value or subpath, FromString(s1)
\* succeeds and ToString of the result equals s1 byte for byte.
C2_IdempotentReencoding ==
  (kind = "str" /\ s1 \in CanonicalPurls)
    => /\ pc = "parsed" => r1.err = "nil"
       /\ pc = "printed" => s2 = s1

\* C3: FromString never panics: for every input string it returns a record or
\* an ordinary error value.
C3_NeverPanics ==
  /\ pc = "parsed" => r1.err # "panic"
  /\ pc = "reparsed" => r2.err # "panic"

\* C4: whenever FromString returns a non-nil error, the record returned with
\* it is the zero-value record.
C4_ErrorMeansZeroRecord ==
  (pc = "parsed" /\ r1.err # "nil") => r1.purl = ZeroPackageURL

\* The strings "pkg:npm/n?k" and "pkg:npm/n?k=": one qualifier, a key without
\* "=" or with an empty value.
MissingEqualPurls ==
  {Purl(pkgColon, TypeNPM, <<"n">>, q, <<>>) : q \in {<<"k">>, <<"k", "=">>}}

\* C5: FromString on a string whose only qualifier is a key without "=" or
\* with an empty value succeeds and returns a record with an empty qualifier
\* set.
C5_EmptyQualifierDropped ==
  (kind = "str" /\ pc = "parsed" /\ s1 \in MissingEqualPurls)
    => (r1.err = "nil" /\ r1.purl.Qualifiers = EmptyValues)

\* A record with only Type and Name
TypeAndName(type, name) == PackageURL(type, <<>>, name, <<>>, EmptyValues, <<>>)

\* C6: ToString escapes a "/" in Name as %2F: for Type "deb" and Name "ab/c"
\* (nothing else set) the result is exactly "pkg:deb/ab%2Fc", and for Name
\* "abc" it is exactly "pkg:deb/abc".
C6_NameEscaping ==
  (kind = "rec" /\ pc = "string")
    => /\ rec0 = TypeAndName(<<"d", "e", "b">>, <<"a", "b", "/", "c">>) => s1 = <<"p", "k", "g", ":", "d", "e", "b", "/", "a", "b", "%", "2", "F", "c">>
       /\ rec0 = TypeAndName(<<"d", "e", "b">>, <<"a", "b", "c">>) => s1 = <<"p", "k", "g", ":", "d", "e", "b", "/", "a", "b", "c">>

C6_Witness ==
  /\ kind = "rec"
  /\ pc = "string"
  /\ rec0 = TypeAndName(<<"d", "e", "b">>, <<"a", "b", "/", "c">>)
  /\ s1 = <<"p", "k", "g", ":", "d", "e", "b", "/", "a", "b", "%", "2", "F", "c">>

\* The strings whose namespace segment holds a percent-encoded "@", "?" or "#"
ReservedPurls ==
  {EncodingPurl(ns, PlainSegment, PlainSegment, PlainSegment, PlainSegment) :
     ns \in {EncodedAt, EncodedQuestion, EncodedHash}}

\* C7: a percent-encoded "@", "?" or "#" inside a namespace segment stays
\* percent-encoded through FromString followed by ToString: the output string
\* equals the input string.
C7_ReservedStaysEncoded ==
  (kind = "str" /\ pc = "printed" /\ s1 \in ReservedPurls) => s2 = s1

\* The path "<namespace>/<name>@<version>" has a non-empty namespace: there
\* is a character before its last "/".
BodyHasNamespace(b) == LastIndex(b, "/") > 1

\* The path has a non-empty version: there is a character after the last "@"
\* of its last segment.
BodyHasVersion(b) ==
  LET unit == SubSeq(b, LastIndex(b, "/") + 1, Len(b))
  IN LastIndex(unit, "@") # 0 /\ LastIndex(unit, "@") < Len(unit)

\* C8: FromString returns an error for type swift when the namespace or the
\* version is empty and for type cran when the version is empty, and no error
\* when the required fields are present; validCustomRules on a record decides
\* the same way.
C8_MandatoryFields ==
  /\ (kind = "str" /\ pc = "parsed")
       => \A b \in TypedBodies :
            /\ s1 = Purl(pkgColon, <<"s", "w", "i", "f", "t">>, b, <<>>, <<>>)
                 => (r1.err # "nil" <=> ~(BodyHasNamespace(b) /\ BodyHasVersion(b)))
            /\ s1 = Purl(pkgColon, <<"c", "r", "a", "n">>, b, <<>>, <<>>)
                 => (r1.err # "nil" <=> ~BodyHasVersion(b))
  /\ (kind = "rec" /\ pc = "validated")
       => /\ rec0.Type = <<"s", "w", "i", "f", "t">>
               => (vres # "nil" <=> (rec0.Namespace = <<>> \/ rec0.Version = <<>>))
          /\ rec0.Type = <<"c", "r", "a", "n">> => (vres # "nil" <=> rec0.Version = <<>>)

C8_Witness ==
  /\ kind = "str"
  /\ pc = "parsed"
  /\ s1 = <<"p", "k", "g", ":", "s", "w", "i", "f", "t", "/", "n", "@", "1">>
  /\ r1.err = "namespace is required"

\* The value of the "channel" qualifier; empty when the qualifier is absent
ChannelValue(q) ==
  IF <<"c", "h", "a", "n", "n", "e", "l">> \in DOMAIN q /\ q[<<"c", "h", "a", "n", "n", "e", "l">>] # <<>> THEN q[<<"c", "h", "a", "n", "n", "e", "l">>][1] ELSE <<>>

\* C9: for type conan, validation fails when the namespace is non-empty and
\* the channel qualifier is absent or empty, and when the namespace is empty
\* and a channel qualifier with a non-empty value is present; it passes when
\* both are non-empty, and when the namespace is empty and channel is absent
\* or empty.
C9_ConanChannel ==
  (kind = "rec" /\ pc = "validated" /\ rec0.Type = <<"c", "o", "n", "a", "n">>)
    => (vres = "nil" <=> ((rec0.Namespace # <<>>) <=> (ChannelValue(rec0.Qualifiers) # <<>>)))

C9_Witness ==
  /\ kind = "rec"
  /\ pc = "validated"
  /\ rec0.Type = <<"c", "o", "n", "a", "n">>
  /\ rec0.Namespace # <<>>
  /\ <<"c", "h", "a", "n", "n", "e", "l">> \in DOMAIN rec0.Qualifiers
  /\ ChannelValue(rec0.Qualifiers) = <<>>
  /\ vres = "the qualifier channel must be not empty if namespace is present"

\* The types whose name is lower-cased
LowerCasedNameTypes ==
  {<<"a", "l", "p", "m">>, <<"a", "p", "k">>, <<"b", "i", "t", "b", "u", "c", "k", "e", "t">>, <<"c", "o", "m", "p", "o", "s", "e", "r">>, <<"d", "e", "b">>, <<"g", "i", "t", "h", "u", "b">>, <<"g", "o", "l", "a", "n", "g">>, <<"n", "p", "m">>}

\* '_' replaced by '-'
RECURSIVE Hyphenate(_)
Hyphenate(s) ==
  IF s = <<>> THEN <<>>
  ELSE <<IF s[1] = "_" THEN "-" ELSE s[1]>> \o Hyphenate(Tail(s))

\* The name the name axis prescribes for a type and a percent-decoded name
NameAxis(type, decoded) ==
  IF type \in LowerCasedNameTypes THEN ToLower(decoded)
  ELSE IF type = <<"p", "y", "p", "i">> THEN Hyphenate(ToLower(decoded))
  ELSE decoded

\* The percent-decoded name of the path "<namespace>/<name>@<version>"
DecodedName(b) ==
  LET unit == SubSeq(b, LastIndex(b, "/") + 1, Len(b))
      rawName == IF LastIndex(unit, "@") # 0 THEN SubSeq(unit, 1, LastIndex(unit, "@") - 1)
                 ELSE unit
  IN PathUnescape(rawName).s

\* C10: the Name returned by FromString is the percent-decoded name,
\* lower-cased exactly for the types alpm, apk, bitbucket, composer, deb,
\* github, golang and npm, lower-cased with every '_' replaced by '-' for pypi,
\* and unchanged for every other type except mlflow.
C10_NameAxis ==
  (kind = "str" /\ pc = "parsed" /\ r1.err = "nil" /\ r1.purl.Type # <<"m", "l", "f", "l", "o", "w">>)
    => \A b \in TypedBodies :
         s1 \in {Purl(pkgColon, ty, b, <<>>, <<>>) :
                   ty \in KnownTypes \cup {TypeUnknown, TypeUpperNPM}}
           => r1.purl.Name = NameAxis(r1.purl.Type, DecodedName(b))

C10_Witness ==
  /\ kind = "str"
  /\ pc = "parsed"
  /\ s1 = <<"p", "k", "g", ":", "p", "y", "p", "i", "/", "N", "S", "/", "N", "a", "_", "M", "e", "@", "V", "1">>
  /\ r1.err = "nil"
  /\ r1.purl.Name = <<"n", "a", "-", "m", "e">>

\* The purl strings "pkg:<type>/<path>" without query and fragment, over the
\* paths of TypedBodies
TypedPurls(b) ==
  {Purl(pkgColon, ty, b, <<>>, <<>>) : ty \in KnownTypes \cup {TypeUnknown, TypeUpperNPM}}

\* The types whose namespace is lower-cased
LowerCasedNamespaceTypes ==
  {<<"a", "l", "p", "m">>,
   <<"a", "p", "k">>,
   <<"b", "i", "t", "b", "u", "c", "k", "e", "t">>,
   <<"c", "o", "m", "p", "o", "s", "e", "r">>,
   <<"d", "e", "b">>,
   <<"g", "i", "t", "h", "u", "b">>,
   <<"g", "o", "l", "a", "n", "g">>,
   <<"n", "p", "m">>,
   <<"r", "p", "m">>,
   <<"q", "p", "k", "g">>}

\* The percent-decoded namespace of the path "<namespace>/<name>@<version>"
DecodedNamespace(b) ==
  IF LastIndex(b, "/") = 0 THEN <<>>
  ELSE PathUnescape(SubSeq(b, 1, LastIndex(b, "/") - 1)).s

\* C11: the Namespace returned by FromString is the percent-decoded
\* namespace, lower-cased exactly for the types alpm, apk, bitbucket,
\* composer, deb, github, golang, npm, rpm and qpkg, and unchanged for every
\* other type.
C11_NamespaceAxis ==
  (kind = "str" /\ pc = "parsed" /\ r1.err = "nil")
    => \A b \in TypedBodies :
         s1 \in TypedPurls(b)
           => r1.purl.Namespace =
                IF r1.purl.Type \in LowerCasedNamespaceTypes
                THEN ToLower(DecodedNamespace(b))
                ELSE DecodedNamespace(b)

C11_Witness ==
  /\ kind = "str"
  /\ pc = "parsed"
  /\ s1 = <<"p", "k", "g", ":", "r", "p", "m", "/", "N", "%", "5", "3", "/", "A", "/", "n", "@", "1">>
  /\ r1.err = "nil"
  /\ r1.purl.Namespace = <<"n", "s", "/", "a">>

\* The percent-decoded version of the path "<namespace>/<name>@<version>"
DecodedVersion(b) ==
  LET unit == SubSeq(b, LastIndex(b, "/") + 1, Len(b))
  IN IF LastIndex(unit, "@") = 0 THEN <<>>
     ELSE PathUnescape(SubSeq(unit, LastIndex(unit, "@") + 1, Len(unit))).s

\* The errors of the per-type rules
ValidationErrors ==
  {"the qualifier channel must be not empty if namespace is present",
   "channel qualifier does not exist",
   "namespace is required if channel is non empty",
   "namespace is required",
   "version is required"}

\* C12: the Version returned by FromString is lower-cased only for type
\* huggingface and unchanged for every other type; for a type outside the
\* known-type table namespace, name and version are all unchanged; and type
\* adjustment produces no error: a well-formed path fails only on a per-type
\* rule, and never for an unknown type.
C12_VersionAxis ==
  (kind = "str" /\ pc = "parsed")
    => \A b \in TypedBodies :
         s1 \in TypedPurls(b)
           => /\ r1.err \in {"nil"} \cup ValidationErrors
              /\ r1.purl.Version =
                   IF r1.purl.Type = <<"h", "u", "g", "g", "i", "n", "g", "f", "a", "c", "e">>
                   THEN ToLower(DecodedVersion(b))
                   ELSE DecodedVersion(b)
              /\ r1.purl.Type \notin KnownTypes
                   => /\ r1.err = "nil"
                      /\ r1.purl.Namespace = DecodedNamespace(b)
                      /\ r1.purl.Name = DecodedName(b)
                      /\ r1.purl.Version = DecodedVersion(b)

C12_Witness ==
  /\ kind = "str"
  /\ pc = "parsed"
  /\ s1 = <<"p", "k", "g", ":", "h", "u", "g", "g", "i", "n", "g", "f", "a", "c", "e", "/", "N", "S", "/", "N", "a", "_", "M", "e", "@", "V", "1">>
  /\ r1.err = "nil"
  /\ r1.purl.Version = <<"v", "1">>

\* s has the text sub in it
HasText(s, sub) ==
  \E i \in 0..(Len(s) - Len(sub)) : \A j \in 1..Len(sub) : s[i + j] = sub[j]

\* The value of the repository_url qualifier; empty when it is absent
RepositoryURL(q) ==
  IF <<"r", "e", "p", "o", "s", "i", "t", "o", "r", "y", "_", "u", "r", "l">> \in DOMAIN q /\ q[<<"r", "e", "p", "o", "s", "i", "t", "o", "r", "y", "_", "u", "r", "l">>] # <<>> THEN q[<<"r", "e", "p", "o", "s", "i", "t", "o", "r", "y", "_", "u", "r", "l">>][1] ELSE <<>>

\* C13: for type mlflow the name is unchanged when the repository_url
\* qualifier is absent, unchanged when its value contains "azureml" (also
\* together with "databricks"), lower-cased when its value contains
\* "databricks" and not "azureml", and unchanged for any other value.
C13_MlflowName ==
  (kind = "str" /\ pc = "parsed" /\ s1 \in MlflowPurls)
    => /\ r1.err = "nil"
       /\ r1.purl.Name =
            IF /\ HasText(RepositoryURL(r1.purl.Qualifiers), <<"d", "a", "t", "a", "b", "r", "i", "c", "k", "s">>)
               /\ ~HasText(RepositoryURL(r1.purl.Qualifiers), <<"a", "z", "u", "r", "e", "m", "l">>)
            THEN <<"n", "a">>
            ELSE <<"N", "a">>

C13_Witness ==
  /\ kind = "str"
  /\ pc = "parsed"
  /\ s1 = <<"p", "k", "g", ":", "m", "l", "f", "l", "o", "w", "/", "N", "a", "?", "r", "e", "p", "o", "s", "i", "t", "o", "r", "y", "_", "u", "r", "l", "=", "d", "a", "t", "a", "b", "r", "i", "c", "k", "s">>
  /\ r1.err = "nil"
  /\ r1.purl.Name = <<"n", "a">>

\* The query of a purl string: what stands between its first "?" and its "#"
QueryOf(s) == Cut(Cut(s, "#").before, "?").after

\* The keys of the "key=value" pairs of a query, in the order written
KeysOf(query) ==
  IF query = <<>> THEN <<>>
  ELSE [i \in 1..Len(Split(query, "&")) |-> Cut(Split(query, "&")[i], "=").before]

\* a comes before b, or is b, in the byte-wise lexicographic order
RECURSIVE LexLeq(_, _)
LexLeq(a, b) ==
  IF a = <<>> THEN TRUE
  ELSE IF b = <<>> THEN FALSE
  ELSE IF a[1] = b[1] THEN LexLeq(Tail(a), Tail(b))
  ELSE CharByte(a[1]) < CharByte(b[1])

Ascending(keys) == \A i, j \in 1..Len(keys) : i < j => LexLeq(keys[i], keys[j])

\* The slices that hold the pairs of q in another order
Reorderings(q) ==
  {[i \in 1..Len(q) |-> q[f[i]]] :
     f \in {g \in [1..Len(q) -> 1..Len(q)] : \A i, j \in 1..Len(q) : g[i] = g[j] => i = j}}

DistinctKeys(q) == \A i, j \in 1..Len(q) : q[i].Key = q[j].Key => i = j

C14_WitnessSlice ==
  /\ kind = "slice"
  /\ pc = "query"
  /\ Len(qq) = 2
  /\ qq[1].Key = <<"b">>
  /\ KeysOf(rq) = <<<<"a">>, <<"b">>>>

\* The keys a slice of qualifiers holds with an empty value only
EmptyValuedKeys(q) ==
  {q[i].Key : i \in {j \in 1..Len(q) : \A l \in 1..Len(q) : q[l].Key = q[j].Key => q[l].Value = <<>>}}

\* C15: a qualifier whose value is the empty string does not appear in the
\* output: ToString of a record that holds key k with the value "" has no
\* pair of key k, a record whose qualifiers all have empty values is rendered
\* without "?", and the query rendered from a slice of qualifiers has no pair
\* for a key of empty value.
C15_EmptyValueDropped ==
  /\ (kind = "rec" /\ pc = "string")
       => /\ \A k \in DOMAIN rec0.Qualifiers :
               (\A i \in 1..Len(rec0.Qualifiers[k]) : rec0.Qualifiers[k][i] = <<>>)
                 => \A i \in 1..Len(KeysOf(QueryOf(s1))) : KeysOf(QueryOf(s1))[i] # k
          /\ (\A k \in DOMAIN rec0.Qualifiers :
                \A i \in 1..Len(rec0.Qualifiers[k]) : rec0.Qualifiers[k][i] = <<>>)
               => ~HasText(Cut(s1, "#").before, <<"?">>)
  /\ (kind = "slice" /\ pc = "query")
       => \A k \in EmptyValuedKeys(qq) :
            \A i \in 1..Len(KeysOf(rq)) : KeysOf(rq)[i] # k

\* Two pairs of the query have keys that are equal once lower-cased
RepeatsKey(query) ==
  \E i, j \in 1..Len(KeysOf(query)) :
    i < j /\ ToLower(KeysOf(query)[i]) = ToLower(KeysOf(query)[j])

\* C16: a query that repeats a key, as written or after lower-casing, is
\* rejected: FromString and parseQualifiers fail on it, the qualifiers
\* parseQualifiers returns have distinct keys, and the string ToString
\* renders from a parsed record has no key twice.
C16_DuplicateKeysRejected ==
  /\ (kind = "str" /\ pc = "parsed" /\ RepeatsKey(QueryOf(s1))) => r1.err # "nil"
  /\ (kind = "str" /\ pc = "printed") => ~RepeatsKey(QueryOf(s2))
  /\ (kind = "query" /\ pc = "qualifiers")
       => /\ RepeatsKey(rq) => pq.status # "ok"
          /\ pq.status = "ok" => DistinctKeys(pq.q)

\* The key is non-empty, of ASCII letters, digits, ".", "-" and "_", and
\* does not start with a digit
MatchesKeyPattern(key) ==
  /\ key # <<>>
  /\ \A i \in 1..Len(key) :
       \/ CharByte(key[i]) \in (48..57) \cup (65..90) \cup (97..122)
       \/ key[i] \in {".", "-", "_"}
  /\ CharByte(key[1]) \notin 48..57

\* The query has a pair whose key, percent-decoded, is outside the pattern
HasInvalidKey(query) ==
  \E i \in 1..Len(KeysOf(query)) :
    /\ Split(query, "&")[i] # <<>>
    /\ QueryUnescape(KeysOf(query)[i]).ok
    /\ ~MatchesKeyPattern(QueryUnescape(KeysOf(query)[i]).s)

\* C17: FromString returns an error when a qualifier key is outside the key
\* pattern, and every key of a record it returns without error matches the
\* pattern and is lower-case; parseQualifiers decides the same way.
C17_InvalidKeyRejected ==
  /\ (kind = "str" /\ pc = "parsed")
       => /\ HasInvalidKey(QueryOf(s1)) => r1.err \notin {"nil", "panic"}
          /\ r1.err = "nil"
               => \A k \in DOMAIN r1.purl.Qualifiers : MatchesKeyPattern(k) /\ ToLower(k) = k
  /\ (kind = "query" /\ pc = "qualifiers")
       => /\ HasInvalidKey(rq) => pq.status = "err"
          /\ pq.status = "ok"
               => \A i \in 1..Len(pq.q) :
                    MatchesKeyPattern(pq.q[i].Key) /\ ToLower(pq.q[i].Key) = pq.q[i].Key

\* What C17 states, with a call that does not return counted as a failure
C17_InvalidKeyNeverAccepted ==
  /\ (kind = "str" /\ pc = "parsed")
       => /\ HasInvalidKey(QueryOf(s1)) => r1.err # "nil"
          /\ r1.err = "nil"
               => \A k \in DOMAIN r1.purl.Qualifiers : MatchesKeyPattern(k) /\ ToLower(k) = k
  /\ (kind = "query" /\ pc = "qualifiers")
       => /\ HasInvalidKey(rq) => pq.status # "ok"
          /\ pq.status = "ok"
               => \A i \in 1..Len(pq.q) :
                    MatchesKeyPattern(pq.q[i].Key) /\ ToLower(pq.q[i].Key) = pq.q[i].Key

\* The type token of a string that starts with "pkg:" and goes on without
\* "/": what stands between the colon and the first "/"
TypeToken(s) == Cut(SubSeq(s, 5, Len(s)), "/").before

StartsWithPkgColon(s) ==
  Len(s) > 4 /\ SubSeq(s, 1, 4) = <<"p", "k", "g", ":">> /\ s[5] # "/"

\* The type is non-empty, of ASCII letters, digits, ".", "-" and "+", and
\* does not start with a digit
MatchesTypePattern(type) ==
  /\ type # <<>>
  /\ \A i \in 1..Len(type) :
       \/ CharByte(type[i]) \in (48..57) \cup (65..90) \cup (97..122)
       \/ type[i] \in {".", "-", "+"}
  /\ CharByte(type[1]) \notin 48..57

\* C18: FromString returns an error when the type token holds a character
\* that is not an ASCII letter, a digit, ".", "-" or "+", or starts with a
\* digit.
C18_InvalidTypeRejected ==
  (kind = "str" /\ pc = "parsed" /\ StartsWithPkgColon(s1)
     /\ ~MatchesTypePattern(TypeToken(s1)))
    => r1.err \notin {"nil", "panic"}

\* The number of bytes c in s
RECURSIVE CountByte(_, _)
CountByte(s, c) ==
  IF s = <<>> THEN 0
  ELSE (IF s[1] = c THEN 1 ELSE 0) + CountByte(Tail(s), c)

\* The part of a string that starts with "pkg:" after the last "/" of its
\* path: the name, and the version after "@"
NameVersionUnit(s) ==
  LET path == Cut(Cut(s, "#").before, "?").before
  IN SubSeq(path, LastIndex(path, "/") + 1, Len(path))

\* C19: FromString returns an error when a reserved delimiter stands
\* unencoded a second time where one occurrence is structural: a second "@"
\* in the name@version unit, a "?" inside the query, a "#" inside the
\* fragment.
C19_RepeatedDelimiterRejected ==
  (kind = "str" /\ pc = "parsed" /\ StartsWithPkgColon(s1))
    => /\ CountByte(NameVersionUnit(s1), "@") > 1 => r1.err \notin {"nil", "panic"}
       /\ CountByte(Cut(s1, "#").before, "?") > 1 => r1.err \notin {"nil", "panic"}
       /\ CountByte(s1, "#") > 1 => r1.err \notin {"nil", "panic"}

\* The scheme as written in s: what precedes the first ":", none without ":"
SchemeOf(s) == IF Contains(s, ":") THEN Cut(s, ":").before ELSE <<>>

\* C20: FromString returns the scheme error for every string whose scheme is
\* not the lower-case text "pkg", whatever the case of its letters.
C20_SchemeCaseSensitive ==
  (kind = "str" /\ pc = "parsed" /\ SchemeOf(s1) # <<"p", "k", "g">>)
    => r1.err = "purl scheme is not \"pkg\""

\* C21: QualifiersFromMap(m) has one qualifier for each entry of m, in
\* ascending order of key, whatever the order of the map iteration;
\* Map(QualifiersFromMap(m)) is m; and QualifiersFromMap(Map(q)) is q for a
\* slice q whose keys are distinct and ascending.
C21_MapConversion ==
  /\ (kind = "map" /\ pc \in {"fromMap", "mapBack"})
       => /\ Len(qr) = Cardinality(DOMAIN mm)
          /\ \A k \in DOMAIN mm : \E i \in 1..Len(qr) : qr[i] = [Key |-> k, Value |-> mm[k]]
          /\ \A i, j \in 1..Len(qr) :
               i < j => (qr[i].Key # qr[j].Key /\ LexLeq(qr[i].Key, qr[j].Key))
  /\ (kind = "map" /\ pc = "mapBack") => mr = mm
  /\ (kind = "slice" /\ pc = "sliceBack" /\ DistinctKeys(qq)
        /\ \A i, j \in 1..Len(qq) : i < j => LexLeq(qq[i].Key, qq[j].Key))
       => qr = qq

C21_Witness ==
  /\ kind = "map"
  /\ pc = "mapBack"
  /\ DOMAIN mm = {<<"a">>, <<"b">>, <<"B">>}
  /\ qr[1].Key = <<"B">>
  /\ mr = mm

C21_WitnessSlice ==
  /\ kind = "slice"
  /\ pc = "sliceBack"
  /\ Len(qq) = 2
  /\ qq[1].Key = <<"B">>
  /\ qq[2].Key = <<"a">>
  /\ qr = qq

\* The segments of a subpath between its leading and trailing "/"
Segments(subpath) == Split(Trim(subpath, "/"), "/")

HasDotSegmentAfterFirst(subpath) ==
  \E i \in 2..Len(Segments(subpath)) : Segments(subpath)[i] \in {<<".">>, <<".", ".">>}

\* A record with Type "npm", Name "pkg" and nothing else but a Subpath
OnlySubpath(p) ==
  /\ p.Type = <<"n", "p", "m">>
  /\ p.Name = <<"p", "k", "g">>
  /\ p.Namespace = <<>>
  /\ p.Version = <<>>
  /\ p.Qualifiers = EmptyValues

\* C22: Normalize returns an error for a record whose Subpath has a "." or
\* ".." segment after its first segment; a Subpath that only starts with "./"
\* or "../" is accepted and left as it is; leading and trailing "/" are
\* trimmed, so "/sub/path/" becomes "sub/path".
C22_SubpathTraversal ==
  (kind = "rec" /\ pc = "normalized")
    => /\ HasDotSegmentAfterFirst(rec0.Subpath) => nres.err # "nil"
       /\ (OnlySubpath(rec0) /\ ~HasDotSegmentAfterFirst(rec0.Subpath))
            => /\ nres.err = "nil"
               /\ nres.purl.Subpath = Trim(rec0.Subpath, "/")
       /\ rec0.Subpath = <<"/", "s", "u", "b", "/", "p", "a", "t", "h", "/">>
            => nres.purl.Subpath = <<"s", "u", "b", "/", "p", "a", "t", "h">>
       /\ (OnlySubpath(rec0) /\ rec0.Subpath = <<".", "/", "s", "u", "b", "/", "p", "a", "t", "h">>)
            => (nres.err = "nil" /\ nres.purl.Subpath = rec0.Subpath)
       /\ (OnlySubpath(rec0) /\ rec0.Subpath = <<".", ".", "/", "s", "u", "b", "/", "p", "a", "t", "h">>)
            => (nres.err = "nil" /\ nres.purl.Subpath = rec0.Subpath)

C22_Witness ==
  /\ kind = "rec"
  /\ pc = "normalized"
  /\ rec0.Subpath = <<"s", "u", "b", "/", ".", ".", "/", "p", "a", "t", "h">>
  /\ nres.err = "invalid subpath segment"

C22_WitnessAccepted ==
  /\ kind = "rec"
  /\ pc = "normalized"
  /\ rec0.Subpath = <<".", ".", "/", "s", "u", "b", "/", "p", "a", "t", "h">>
  /\ nres.err = "nil"

\* The body of an npm purl without query and fragment: what follows "pkg:npm/"
IsNpmBody(s) ==
  /\ Len(s) >= 8
  /\ SubSeq(s, 1, 8) = <<"p", "k", "g", ":", "n", "p", "m", "/">>
  /\ ~Contains(s, "?")
  /\ ~Contains(s, "#")

NpmBody(s) == SubSeq(s, 9, Len(s))

\* The positions of the last byte c of s, 0 when there is none
LastPos(s, c) ==
  IF \E i \in 1..Len(s) : s[i] = c
  THEN CHOOSE i \in 1..Len(s) : s[i] = c /\ \A j \in 1..Len(s) : s[j] = c => j <= i
  ELSE 0

\* The text of the body before its last "/", and the unit after it
RawNamespace(b) == SubSeq(b, 1, LastPos(b, "/") - 1)
Unit(b) == SubSeq(b, LastPos(b, "/") + 1, Len(b))

\* The text of the unit before its last "@" (all of it without "@"), and after
RawName(b) ==
  IF LastPos(Unit(b), "@") = 0 THEN Unit(b)
  ELSE SubSeq(Unit(b), 1, LastPos(Unit(b), "@") - 1)
RawVersion(b) ==
  IF LastPos(Unit(b), "@") = 0 THEN <<>>
  ELSE SubSeq(Unit(b), LastPos(Unit(b), "@") + 1, Len(Unit(b)))

AllDecode(b) ==
  /\ PathUnescape(RawNamespace(b)).ok
  /\ PathUnescape(RawName(b)).ok
  /\ PathUnescape(RawVersion(b)).ok

C23_WitnessNamespace ==
  /\ kind = "str"
  /\ pc = "parsed"
  /\ s1 = <<"p", "k", "g", ":", "n", "p", "m", "/", "%", "2", "F", "/", "n">>
  /\ r1.err = "nil"
  /\ r1.purl.Namespace = <<"/">>
  /\ r1.purl.Name = <<"n">>

\* The remainder x of a string "pkg://" + x or "pkg:/" + x
AuthorityRemainder(s) ==
  IF HasPrefix(s, <<"p", "k", "g", ":", "/", "/">>) THEN SubSeq(s, 7, Len(s))
  ELSE SubSeq(s, 6, Len(s))

\* C24: FromString("pkg://" + x) and FromString("pkg:/" + x) return what
\* FromString("pkg:" + x) returns, the same record or an error in the same
\* cases.
C24_AuthorityFallback ==
  (kind = "str" /\ pc = "parsed" /\ HasPrefix(s1, <<"p", "k", "g", ":", "/">>))
    => \E r \in FromString(<<"p", "k", "g", ":">> \o AuthorityRemainder(s1)) :
         /\ r.purl = r1.purl
         /\ (r.err = "nil") <=> (r1.err = "nil")

\* C25: the string ToString produces starts with "pkg:" and goes on without
\* "/", whatever the fields of the record: neither "pkg:/" nor "pkg://"
\* is produced.
C25_NoAuthorityForm ==
  /\ (kind = "rec" /\ pc = "string")
       => (HasPrefix(s1, <<"p", "k", "g", ":">>) /\ ~HasPrefix(s1, <<"p", "k", "g", ":", "/">>))
  /\ (kind = "str" /\ pc = "printed")
       => (HasPrefix(s2, <<"p", "k", "g", ":">>) /\ ~HasPrefix(s2, <<"p", "k", "g", ":", "/">>))

\* Type, Name and Subpath of a record are well formed
WellFormedFields(p) ==
  /\ p.Type # <<>>
  /\ \A i \in 1..Len(p.Type) : CharByte(p.Type[i]) \notin 65..90
  /\ p.Name # <<>>
  /\ p.Subpath = <<>> \/ (p.Subpath[1] # "/" /\ p.Subpath[Len(p.Subpath)] # "/")

\* No qualifier of the record has an empty value
NoEmptyValue(p) ==
  \A k \in DOMAIN p.Qualifiers :
    \A i \in 1..Len(p.Qualifiers[k]) : p.Qualifiers[k][i] # <<>>

\* C26: a record that FromString returns without error has a non-empty
\* lower-case Type, a non-empty Name, a Subpath that neither starts nor ends
\* with "/", and no qualifier with an empty value.
C26_WellFormedResult ==
  (kind = "str" /\ pc = "parsed" /\ r1.err = "nil")
    => (WellFormedFields(r1.purl) /\ NoEmptyValue(r1.purl))

\* The part of C26 about Type, Name and Subpath
C26_WellFormedFields ==
  (kind = "str" /\ pc = "parsed" /\ r1.err = "nil") => WellFormedFields(r1.purl)

\* C27: the Namespace of a record that FromString returns without error has
\* no leading "/", no trailing "/" and no empty segment.
C27_CanonicalNamespace ==
  (kind = "str" /\ pc = "parsed" /\ r1.err = "nil" /\ r1.purl.Namespace # <<>>)
    => \A i \in 1..Len(Split(r1.purl.Namespace, "/")) :
         Split(r1.purl.Namespace, "/")[i] # <<>>

\* C28: FromString is deterministic: every call on the same string returns
\* the same outcome, whatever the order of the map iteration.
C28_Deterministic ==
  (kind = "str" /\ pc = "parsed") => \A r \in FromString(s1) : r = r1

\* C28 for the calls that return a record: no string has two different
\* successful outcomes
C28_DeterministicRecord ==
  (kind = "str" /\ pc = "parsed" /\ r1.err = "nil")
    => \A r \in FromString(s1) : r.err = "nil" => r = r1

\* A query of one pair with the key k and a value that decodes to a non-empty
\* string
OneDecodedValue(query) ==
  /\ KeysOf(query) = <<<<"k">>>>
  /\ Contains(query, "=")
  /\ QueryUnescape(Cut(query, "=").after).ok
  /\ QueryUnescape(Cut(query, "=").after).s # <<>>

DecodedValue(query) == QueryUnescape(Cut(query, "=").after).s

\* v with its first byte lower-cased when that is an ASCII upper-case letter
FirstLowered(v) ==
  IF CharByte(v[1]) \in 65..90
  THEN <<ByteChar(CharByte(v[1]) + 32)>> \o SubSeq(v, 2, Len(v))
  ELSE v

\* C29: the qualifier value FromString stores is the decoded value with its
\* first character lower-cased and the rest unchanged; a value whose first
\* character is not an ASCII upper-case letter, also a multi-byte one, is
\* stored unchanged. parseQualifiers stores the same.
C29_ValueFirstCharacter ==
  /\ (kind = "str" /\ pc = "parsed" /\ IsNpmBody(Cut(s1, "?").before)
        /\ ~Contains(s1, "#") /\ OneDecodedValue(QueryOf(s1)) /\ r1.err = "nil")
       => r1.purl.Qualifiers = OneValue(<<"k">>, FirstLowered(DecodedValue(QueryOf(s1))))
  /\ (kind = "query" /\ pc = "qualifiers" /\ OneDecodedValue(rq) /\ pq.status = "ok")
       => pq.q = <<[Key |-> <<"k">>, Value |-> FirstLowered(DecodedValue(rq))]>>

\* C29 for the values that start with an ASCII character
C29_ASCIIValueFirstCharacter ==
  /\ (kind = "str" /\ pc = "parsed" /\ IsNpmBody(Cut(s1, "?").before)
        /\ ~Contains(s1, "#") /\ OneDecodedValue(QueryOf(s1)) /\ r1.err = "nil"
        /\ CharByte(DecodedValue(QueryOf(s1))[1]) < 128)
       => r1.purl.Qualifiers = OneValue(<<"k">>, FirstLowered(DecodedValue(QueryOf(s1))))
  /\ (kind = "query" /\ pc = "qualifiers" /\ OneDecodedValue(rq) /\ pq.status = "ok"
        /\ CharByte(DecodedValue(rq)[1]) < 128)
       => pq.q = <<[Key |-> <<"k">>, Value |-> FirstLowered(DecodedValue(rq))]>>

\* C30: a record that FromString returned without error is a fixed point of
\* ToString followed by FromString: the string ToString renders from it is
\* parsed without error into an equal record.
C30_ParseResultFixedPoint ==
  (kind = "str" /\ pc = "reparsed") => (r2.err = "nil" /\ r2.purl = r1.purl)

=============================================================================
